---- MODULE Spec2Model ----
(***************************************************************************)
(* The CCIP-Read gateway of external-resolver: the ccip-server dispatch    *)
(* engine (Server.add / call / handleRequest / multicall) together with    *)
(* the gateway handlers and the Mongo repository they run against.         *)
(*                                                                         *)
(* Byte strings are symbolic: ABI encoding is the tagged tuple             *)
(* <<"abi", types, values>>, the empty byte string '0x' is EmptyBytes, a   *)
(* 4-byte selector is the name of the function it selects.                 *)
(***************************************************************************)
EXTENDS Integers, Sequences, FiniteSets, TLC

(* ---------------------------------------------------------------- bounds *)
MaxBatch == 2
MaxAdds == 2

(* ------------------------------------------------------------- the data *)
(* undefined, for a field that holds a name and for one that holds a     *)
(* structured value (bytes, a message, a list).                            *)
Undefined == "undefined"
Absent == <<"undefined">>
None == "-"
(* The zero-length byte string '0x'.                                       *)
EmptyBytes == <<>>

Reqs == {"r1"}
Nodes == {"n1", "n2"}
Keys == {"avatar", "pubkey"}
Values == {"v1", "v2", ""}
Addrs == {"a1"}
Signatures == {"owner", "stranger"}
Senders == {"0xresolver", "not-an-address"}

Slots == 0..MaxBatch

(* keccak256(LEI) of the record registered for a node.                    *)
LEIHashOf(node) == IF node = "n1" THEN "l1" ELSE "l2"

(* A selector the gateway registers no handler for: addr(bytes32,uint256). *)
UnknownSelector == "addrByCoin"

(* Calldata: a selector, whether the bytes after it decode with the        *)
(* function's input types, and the decoded arguments.                      *)
CD(sel, ok, node, key, value, inner) ==
  [sel |-> sel, ok |-> ok, node |-> node, key |-> key, value |-> value,
   inner |-> inner]

NoData == CD(None, FALSE, None, None, None, <<>>)

TextCalls ==
  {CD("text", TRUE, n, k, None, <<>>) : n \in Nodes \cup {LEIHashOf("n1")},
                                        k \in {"avatar"}}
SetTextCalls ==
  {CD("setText", TRUE, n, "avatar", v, <<>>) : n \in {"n1"}, v \in Values}
    \cup {CD("setText", TRUE, "n1", "pubkey", "v1", <<>>),
          CD("setText", TRUE, "n2", "avatar", "v1", <<>>)}
SetAddrCalls == {CD("setAddr", TRUE, n, None, a, <<>>) : n \in Nodes, a \in Addrs}
LibraryCalls == {CD(s, TRUE, None, None, None, <<>>) : s \in {"ping", "poke"}}
UnknownCalls == {CD(UnknownSelector, TRUE, None, None, None, <<>>)}
MalformedCalls == {CD(s, FALSE, None, None, None, <<>>) : s \in {"text", "setAddr"}}

PlainCalls ==
  TextCalls \cup SetTextCalls \cup SetAddrCalls \cup LibraryCalls
    \cup UnknownCalls \cup MalformedCalls

(* The calls a batch is made of: one of each kind of outcome.              *)
InnerCalls ==
  UnknownCalls
    \cup {CD("poke", TRUE, None, None, None, <<>>),
          CD("text", TRUE, "n1", "avatar", None, <<>>),
          CD("setAddr", TRUE, "n1", None, "a1", <<>>),
          CD("setText", TRUE, "n1", "avatar", "v1", <<>>),
          CD("text", FALSE, None, None, None, <<>>)}

Batches == UNION {[1..n -> InnerCalls] : n \in 0..MaxBatch}

MulticallCalls ==
  {CD("multicall", TRUE, None, None, None, b) : b \in Batches}
    \cup {CD("multicall", FALSE, None, None, None, <<>>)}

CallDatas == PlainCalls \cup MulticallCalls

(* What reaches handleRequest as callData and is no byte string at all.    *)
NotBytes == CD(Undefined, FALSE, None, None, None, <<>>)

(* ------------------------------------------------------- ABI Registry -- *)
(* The FunctionFragment of every function of the interfaces in use.  A    *)
(* function declared without `returns` has the empty output list, which   *)
(* is an (empty) array value and not undefined.                           *)
Fragment(name, inputs, outputs) ==
  [name |-> name, inputs |-> inputs, outputs |-> outputs]

getFunction(name) ==
  CASE name = "multicall" -> Fragment(name, <<"bytes[]">>, <<"bytes[]">>)
    [] name = "text" -> Fragment(name, <<"bytes32", "string">>, <<"string">>)
    [] name = "setText" ->
         Fragment(name, <<"bytes32", "string", "string">>, <<"bytes32", "bytes32">>)
    [] name = "setAddr" -> Fragment(name, <<"bytes32", "address">>, <<>>)
    [] name = "ping" -> Fragment(name, <<>>, <<"string">>)
    [] name = "poke" -> Fragment(name, <<>>, <<>>)

Selectors == {"multicall", "text", "setText", "setAddr", "ping", "poke", UnknownSelector}

NoHandler == [type |-> Fragment(Undefined, <<>>, Absent), func |-> Undefined]

(* HandlerDescription {type, func}: func names the business function.     *)
HandlerDescription(type, func) == [type |-> type, func |-> func]

GatewayHandlers ==
  <<HandlerDescription("text", "withGetText"),
    HandlerDescription("setText", "withSetText"),
    HandlerDescription("setAddr", "withSetAddr")>>

LibraryHandlers ==
  <<HandlerDescription("ping", "library"), HandlerDescription("poke", "library")>>

HandlerLists == {GatewayHandlers, LibraryHandlers}

(* add, keeping the handler a selector already has.                       *)
RECURSIVE addKeepFirst(_, _)
addKeepFirst(table, hs) ==
  IF hs = <<>> THEN table
  ELSE LET handler == Head(hs)
           fn == getFunction(handler.type)
       IN addKeepFirst(IF table[fn.name].func # Undefined
                         THEN table
                         ELSE [table EXCEPT
                                 ![fn.name] = [type |-> fn, func |-> handler.func]],
                       Tail(hs))

(* Server.add: each handler of the list is stored under the selector of   *)
(* its function; a later entry for the same selector replaces the earlier.*)
RECURSIVE add(_, _)
add(table, hs) ==
  IF hs = <<>> THEN table
  ELSE LET handler == Head(hs)
           fn == getFunction(handler.type)
       IN add([table EXCEPT ![fn.name] = [type |-> fn, func |-> handler.func]],
              Tail(hs))

(* The table a constructed Server holds: multicall support only.          *)
addMulticallSupport(table) ==
  add(table, <<HandlerDescription("multicall", "multicall")>>)

(* ------------------------------------------------------------ encoding - *)
AbiEncode(types, values) == <<"abi", types, values>>

ErrorSelector == "Error(string)"

hexConcat(a, b) == <<"concat", a, b>>

(* `${...}` templates and String(err) keep their parts.                   *)
Msg(text) == <<text>>
NoImplementation(selector) ==
  <<"No implementation for function with selector ", selector>>
StringOfError(message) == <<"Error: ">> \o message
InternalServerError(text) == <<"Internal server error: ">> \o text

TTL100Days == "now+100d"

(* formatTTL(3600 * 24 * 100) where the clock is read again after the     *)
(* handler: the same second, or a later one.                              *)
TTL100DaysLater == "later+100d"
HookTTLs == {TTL100Days, TTL100DaysLater}

(* ------------------------------------------------------- RPCResponse --- *)
Body(message, data, ttl) == [message |-> message, data |-> data, ttl |-> ttl]

NoBody == Body(Absent, Absent, Undefined)

(* What `await this.call(...)` yields: an RPCResponse, or a rejection.    *)
NoOutcome == [kind |-> "none", status |-> 0, body |-> NoBody, err |-> Absent]
Returned(status, body) ==
  [kind |-> "returned", status |-> status, body |-> body, err |-> Absent]
Threw(err) == [kind |-> "threw", status |-> 0, body |-> NoBody, err |-> err]

(* HandlerResponse | undefined | void.                                    *)
NoError == [message |-> Absent, status |-> 0]
HandlerError(message, status) == [message |-> message, status |-> status]
HandlerResponse(hasData, data, extraData, error) ==
  [defined |-> TRUE, hasData |-> hasData, data |-> data,
   extraData |-> extraData, error |-> error]
ReturnedUndefined ==
  [defined |-> FALSE, hasData |-> FALSE, data |-> <<>>,
   extraData |-> Undefined, error |-> NoError]
(* `return []`, `return {}`: an object with none of the three fields.     *)
ReturnedEmpty == HandlerResponse(FALSE, <<>>, Undefined, NoError)
ReturnedError(message, status) ==
  HandlerResponse(FALSE, <<>>, Undefined, HandlerError(Msg(message), status))

(* -------------------------------------------------- MongoRepository ---- *)
(* An EntityResolverRecord document: the fields that take part in the     *)
(* fingerprint, and the constitutionHash stored beside them.              *)
DocFields == {"LEIHash", "address", "avatar", "nodeHash", "pubkey"}

(* Object.keys(...).sort() of the fields above (code unit order: capitals *)
(* first).                                                                *)
SortedFields == <<"LEIHash", "address", "avatar", "nodeHash", "pubkey">>

keccak256(x) == <<"keccak256", x>>

(* fetchAndPrepareRecord: the excluded keys dropped, the rest as          *)
(* key/value pairs in alphabetical key order (the order JSON.stringify    *)
(* will print them in).                                                   *)
fetchAndPrepareRecord(fields) ==
  SelectSeq([i \in 1..Len(SortedFields) |->
               <<SortedFields[i], fields[SortedFields[i]]>>],
            LAMBDA p : p[2] # Undefined)

(* recordObj[key] = value: in place when the key is there, appended last  *)
(* when it is new.                                                        *)
AssignKey(recordObj, key, value) ==
  IF \E i \in 1..Len(recordObj) : recordObj[i][1] = key
    THEN [i \in 1..Len(recordObj) |->
            IF recordObj[i][1] = key THEN <<key, value>> ELSE recordObj[i]]
    ELSE Append(recordObj, <<key, value>>)

NoFields == [f \in DocFields |-> Undefined]
NoRecord == [exists |-> FALSE, fields |-> NoFields, constitutionHash |-> Absent]

(* register: the record is created with the fingerprint of its contents.  *)
NewRecord(node) ==
  LET fields == [NoFields EXCEPT !["nodeHash"] = node,
                               !["LEIHash"] = LEIHashOf(node)]
  IN [exists |-> TRUE, fields |-> fields,
      constitutionHash |-> keccak256(fetchAndPrepareRecord(fields))]

(* findOneAndUpdate({nodeHash: node}, update): no upsert.                 *)
findOneAndUpdate(db, node, key, value) ==
  IF db[node].exists
    THEN [db EXCEPT ![node].fields[key] = value]
    ELSE db

(* MongoRepository.setText, after the fetch: the fingerprint it computes. *)
setTextHash(doc, key, value) ==
  keccak256(AssignKey(fetchAndPrepareRecord(doc.fields), key, value))

(* MongoRepository.setText, the write: {[key]: value, constitutionHash}.  *)
setTextUpdate(db, node, key, value, constitutionHash) ==
  IF db[node].exists
    THEN [db EXCEPT ![node].fields[key] = value,
                    ![node].constitutionHash = constitutionHash]
    ELSE db

(* EntityResolverRecord.findOne({[field]: value}): the record, or null.    *)
findOne(db, field, value) ==
  IF \E n \in Nodes : db[n].exists /\ db[n].fields[field] = value
    THEN db[CHOOSE n \in Nodes : db[n].exists /\ db[n].fields[field] = value]
    ELSE NoRecord

(* if (x): undefined, null and the empty string are falsy.                *)
Truthy(x) == x # Undefined /\ x # ""

(* MongoRepository.getText: the record by nodeHash or else by LEIHash;    *)
(* result[key] if it is truthy, or null.                                  *)
getText(db, node, key) ==
  LET byNode == findOne(db, "nodeHash", node)
      result == IF byNode.exists THEN byNode ELSE findOne(db, "LEIHash", node)
  IN IF result.exists /\ Truthy(result.fields[key])
       THEN result.fields[key]
       ELSE Undefined

(* MongoRepository.getAddress: findOne({nodeHash: node}), then            *)
(* `result?.address || null`.                                             *)
getAddress(db, node) ==
  LET result == findOne(db, "nodeHash", node)
  IN IF result.exists /\ Truthy(result.fields["address"])
       THEN result.fields["address"]
       ELSE Undefined

(* MongoRepository.setAddr: {address} on the record of the node, if any.  *)
setAddr(db, node, address) == findOneAndUpdate(db, node, "address", address)

(* OwnershipValidator.verifyOwnership({node, signature}).                 *)
verifyOwnership(node, signature) == signature = "owner"

(* updateOne({nodeHash: node}, {owner: onchainOwner}, {upsert: true}): a  *)
(* record that is there keeps the fields of the fingerprint modelled; a   *)
(* record that is not is created with its nodeHash and owner.             *)
UpsertedRecord(node) ==
  [exists |-> TRUE, fields |-> [NoFields EXCEPT !["nodeHash"] = node],
   constitutionHash |-> Absent]

updateOneUpsert(db, node) ==
  IF db[node].exists THEN db ELSE [db EXCEPT ![node] = UpsertedRecord(node)]

ReservedKeys == {"pubkey", "ABI"}

(* ----------------------------------------------------- signing envelope *)
(* Byte strings are sequences of parts: <<"byte", b>> for one byte of a   *)
(* dynamic value, and one part for each fixed-width value (an address is  *)
(* 20 bytes, a uint64 8, a hash 32).                                      *)
Bytes1900 == <<<<"byte", "19">>, <<"byte", "00">>>>

(* viem's encodePacked lower-cases an address before packing it.          *)
toLowerCase(address) == IF address = "0xAA" THEN "0xaa" ELSE address

(* encodePacked of one value, by its type: a dynamic `bytes` is packed as *)
(* it is, with no length and no padding.                                  *)
Packed(type, value) ==
  CASE type = "bytes" -> value
    [] type = "address" -> <<<<"address", toLowerCase(value)>>>>
    [] type = "uint64" -> <<<<"uint64", value>>>>
    [] type = "bytes32" -> <<<<"bytes32", value>>>>

RECURSIVE encodePacked(_)
encodePacked(parts) ==
  IF parts = <<>> THEN <<>>
  ELSE Packed(Head(parts)[1], Head(parts)[2]) \o encodePacked(Tail(parts))

(* makeMessageHash, packing the calldata and the response themselves.     *)
makeMessageHashUnhashed(sender, ttl, calldata, response) ==
  keccak256(encodePacked(<<<<"bytes", Bytes1900>>, <<"address", sender>>,
                           <<"uint64", ttl>>, <<"bytes", calldata>>,
                           <<"bytes", response>>>>))

makeMessageHash(sender, ttl, calldata, response) ==
  keccak256(encodePacked(<<<<"bytes", Bytes1900>>, <<"address", sender>>,
                           <<"uint64", ttl>>,
                           <<"bytes32", keccak256(calldata)>>,
                           <<"bytes32", keccak256(response)>>>>))

(* privateKeyToAccount(privateKey).address                                *)
privateKeyToAccount(privateKey) == IF privateKey = "k1" THEN "0xs1" ELSE "0xs2"

(* signer.signMessage({message: {raw}}): ECDSA with deterministic nonces, *)
(* a function of the key and the message.                                 *)
signMessage(privateKey, raw) == <<"sig", privateKey, raw>>

(* The inputs of the digest specification.                                *)
PrivateKeys == {"k1", "k2"}
SigningSenders == {"0xaa", "0xAA", "0xbb"}
SigningTTLs == {"60", "61"}
SigningCalldatas == {<<<<"byte", "ab">>>>, <<<<"byte", "ab">>, <<"byte", "cd">>>>}
SigningResponses == {<<<<"byte", "ef">>>>, <<<<"byte", "cd">>, <<"byte", "ef">>>>}

SigningInputs ==
  [sender : SigningSenders, ttl : SigningTTLs, calldata : SigningCalldatas,
   response : SigningResponses, privateKey : PrivateKeys]

NoSigning == [in |-> <<>>, out |-> <<>>]

(* withSigner from makeMessageHash to signMessage, for one request.       *)
Signed(in) ==
  LET msgHash == makeMessageHash(in.sender, in.ttl, in.calldata, in.response)
  IN [msgHash |-> msgHash,
      signer |-> privateKeyToAccount(in.privateKey),
      sig |-> signMessage(in.privateKey, msgHash)]

(* The key the gateway is configured with.                                *)
GatewayPrivateKey == "k1"

(* What reaches the client: the status, and the body as its fields.  The  *)
(* signed envelope encodeAbiParameters('bytes,uint64,bytes', [data, ttl,  *)
(* sig]) is the body whose sig is present.                                *)
ClientResponse(status, message, data, ttl, sig) ==
  [status |-> status, message |-> message, data |-> data, ttl |-> ttl, sig |-> sig]

(* The withSigner hook of one request: not entered yet.  `threw` is the   *)
(* error its function rejected with, `nodeHash` the identity it queried   *)
(* the store for.                                                         *)
IdleMw ==
  [pc |-> "idle", body |-> Body(Absent, Absent, Undefined), nodeHash |-> None,
   constitutionHash |-> Absent, threw |-> Absent, sent |-> <<>>]

(* A node hash among whose 32 bytes are the four bytes 10 f1 3a 8c; no    *)
(* record has it.                                                         *)
NodeWith10f13a8c == "0x..10f13a8c.."

(* The hex of one encoded call has the substring '10f13a8c': as its       *)
(* selector (setText), or within its arguments.                           *)
hexIncludes10f13a8c(data) ==
  data.sel = "setText" \/ data.node = NodeWith10f13a8c

(* callData.includes('10f13a8c') for a multicall: a substring search over *)
(* the hex of the whole calldata, that is of every inner call.            *)
includesSetText(callData) ==
  \E i \in 1..Len(callData.inner) : hexIncludes10f13a8c(callData.inner[i])

(* The calls withSigner takes the record identity from and rewrites the   *)
(* data of.                                                               *)
isTracked(callData) ==
  \/ callData.sel = "setText"
  \/ callData.sel = "multicall" /\ includesSetText(callData)

(* bytes.slice(0, 66): the first 32-byte word of a byte string.  It is    *)
(* the first value when that is a bytes32, '0x' for the empty string, and *)
(* otherwise (an offset word, an error selector) the hash of no node.     *)
slice66(bytes) ==
  IF bytes = EmptyBytes THEN "0x"
  ELSE IF bytes[1] = "abi" /\ Len(bytes[2]) > 0 /\ bytes[2][1] = "bytes32"
    THEN bytes[3][1]
  ELSE "0xhead"

(* withSigner, lines 42-55: the nodeHash it will query the store for.     *)
signerNodeHash(callData, data) ==
  IF callData.sel = "multicall" /\ includesSetText(callData)
    THEN LET dec == data[3][1]
         IN slice66(dec[Len(dec)])
  ELSE IF callData.sel = "setText" THEN slice66(data)
  ELSE "0x"

(* nodeHash + constitutionHash.slice(2, 66)                               *)
NodeAndFingerprint(nodeHash, constitutionHash) ==
  <<"concat", <<nodeHash>>, constitutionHash>>

(* ------------------------------------------------ resolver contracts *)
(* address(0), and the accounts that send transactions.                   *)
ZeroAddress == "0x0"
Accounts == {"alice", "bob"}

(* A transaction or call on a contract: the function, msg.sender, its     *)
(* arguments, the revert reason if it reverted, what it returned, and the *)
(* contract's storage before it.                                          *)
Tx(fn, sender, node, arg, reverted, returned, before) ==
  [fn |-> fn, sender |-> sender, node |-> node, arg |-> arg,
   reverted |-> reverted, returned |-> returned, before |-> before]

(* L2Resolver's storage: _owners, and the text record of each node (the   *)
(* TextResolver profile, one key).                                        *)
L2Storage(owners, texts) == [owners |-> owners, texts |-> texts]

L2Deployed ==
  LET storage == L2Storage([n \in Nodes |-> ZeroAddress], [n \in Nodes |-> ""])
  IN [storage |-> storage,
      last |-> Tx(None, None, None, None, None, None, storage)]

(* L2Resolver.owner(node)                                                 *)
owner(storage, node) == storage.owners[node]

(* L2Resolver.isAuthorised(node), for msg.sender = sender.                *)
isAuthorised(storage, node, sender) ==
  IF storage.owners[node] = ZeroAddress THEN TRUE
  ELSE storage.owners[node] = sender

(* DatabaseResolver's storage: Ownable's owner, _signers, gatewayUrl.     *)
SignerAddresses == {privateKeyToAccount(k) : k \in PrivateKeys}
Urls == {"url1", "url2"}
SignerLists ==
  {<<a>> : a \in SignerAddresses}
    \cup {<<a, b>> : a \in SignerAddresses, b \in SignerAddresses}

ResolverStorage(contractOwner, signers, gatewayUrl) ==
  [contractOwner |-> contractOwner, signers |-> signers, gatewayUrl |-> gatewayUrl]

(* constructor(newGatewayUrl, newOffChainDatabaseTimeoutDuration,         *)
(* newSigners), sent by `deployer`.  `removed` are the signers a          *)
(* SignerRemoved event was emitted for.                                   *)
ResolverDeployed(deployer, newGatewayUrl, newSigners) ==
  LET storage == ResolverStorage(deployer, newSigners, newGatewayUrl)
  IN [storage |-> storage, removed |-> {},
      last |-> Tx(None, None, None, None, None, None, storage)]

(* Ownable's onlyOwner, letting every sender through.                     *)
onlyOwnerAnySender(storage, sender) == TRUE

(* Ownable's onlyOwner: owner() == _msgSender().                          *)
onlyOwner(storage, sender) == storage.contractOwner = sender

(* isSigner(address account)                                              *)
isSigner(storage, account) == account \in storage.signers

(* The gateway's responses that reach resolveWithProof: a result, signed  *)
(* with a key.                                                            *)
ProofResults == {"0xresult"}
ProofResponses == [result : ProofResults, privateKey : PrivateKeys]

(* SignatureVerifier.verify(extraData, response): the address recovered   *)
(* from the signature, and the result.                                    *)
verify(response) ==
  [signer |-> privateKeyToAccount(response.privateKey), result |-> response.result]

(* L1Resolver's storage: Ownable's owner, the targets mapping, the        *)
(* immutable chainId, and ENSIP16's metadata URL.                         *)
TargetKeys == {"TARGET_RESOLVER", "TARGET_REGISTRAR"}
Targets == {"0xl2resolver", "0xl2registrar"}

(* constructor(_chainId, _target_resolver, _target_registrar, _verifier,  *)
(* _metadataUrl), sent by `deployer`.                                     *)
L1Deployed(deployer, _chainId, _target_resolver, _target_registrar) ==
  LET storage == [contractOwner |-> deployer,
                  targets |-> [k \in TargetKeys |->
                                 IF k = "TARGET_RESOLVER" THEN _target_resolver
                                 ELSE _target_registrar],
                  chainId |-> _chainId,
                  metadataUrl |-> "url1"]
  IN [storage |-> storage,
      last |-> Tx(None, None, None, None, <<>>, None, storage)]

(* _offChainStorage, reverting without the error's arguments.             *)
_offChainStorageBare(storage, target) == <<"StorageHandledByL2">>

(* _offChainStorage(target): revert StorageHandledByL2(chainId, target).  *)
_offChainStorage(storage, target) ==
  <<"StorageHandledByL2", storage.chainId, target>>

(* ------------------------------------------------------ domain transfer *)
(* The addresses a transfer is signed by, and the multisig contract that  *)
(* owns the nodes of entities.                                            *)
Signers == {"0xowner", "0xmember"}
ChainOwners == {"0xowner", "0xmultisig"}

(* The handler's call: where it stands, its arguments, the signer the     *)
(* validator recovered, what verifyOwnership read and answered, whether   *)
(* its catch ran, the repository writes made, and how the handler ended.  *)
NoTransfer ==
  [pc |-> "idle", node |-> None, address |-> None, onchainOwner |-> None,
   verified |-> FALSE, isOwner |-> FALSE, caught |-> FALSE, calls |-> {},
   threw |-> Absent, result |-> <<>>, escaped |-> Absent]

(* The chain (owner of each node, managers of the multisig), and a store  *)
(* with no record yet: `stored` is the owner field of each node's record. *)
OwnStart(chain, managers) ==
  [chain |-> chain, managers |-> managers,
   stored |-> [n \in Nodes |-> Absent], call |-> NoTransfer]

(* ------------------------------------------------- domain registration *)
(* The partner indices leiSchema declares fields for:                     *)
(* partner__[0]__... to partner__[5]__...                                 *)
SchemaPartners == 0..5

(* `idx < 5` in withRegisterDomain's loop.                                *)
PartnerLoopEnd == 5

(* The partner__[idx]__* fields of a record: the wallet address           *)
(* (Undefined when the record has no such key), the shares, and the       *)
(* is__manager and is__signer strings.                                    *)
Partner(wallet, shares, manager, signer) ==
  [wallet |-> wallet, shares |-> shares, isManager |-> manager,
   isSigner |-> signer]

NoPartner == Partner(Undefined, Undefined, Undefined, Undefined)

Partners ==
  {NoPartner}
    \cup {Partner("0xw", "100", m, g) : m \in {"true", "false"},
                                        g \in {"true", Undefined}}

(* keccak256(encodeAbiParameters([{type: 'string'}], [role])).slice(2, 66) *)
roleHash(role) == keccak256(AbiEncode(<<"string">>, <<role>>))

(* roles, then roleDataBytes: '0x' followed by the hash of each role, the *)
(* manager's pushed before the signer's.                                  *)
roleDataBytes(partner) ==
  (IF partner.isManager = "true" THEN <<roleHash("manager")>> ELSE <<>>)
    \o (IF partner.isSigner = "true" THEN <<roleHash("signer")>> ELSE <<>>)

(* encodedUserData of one partner.                                        *)
encodedUserData(partner) ==
  AbiEncode(<<"address", "uint256", "bytes">>,
            <<partner.wallet, partner.shares, roleDataBytes(partner)>>)

(* withRegisterDomain's loop `for (let idx = 0; idx < 5; idx++)`: a       *)
(* partner without a wallet address key is skipped, the others are pushed *)
(* in turn.                                                               *)
userBytes(returnObj) ==
  LET F[idx \in 0..PartnerLoopEnd] ==
        IF idx >= PartnerLoopEnd THEN <<>>
        ELSE IF returnObj[idx].wallet = Undefined THEN F[idx + 1]
        ELSE <<encodedUserData(returnObj[idx])>> \o F[idx + 1]
  IN F[0]

(* A register call: the record repo.register answered with, and what the  *)
(* handler returned.                                                      *)
Registration(pc, returnObj, result) ==
  [pc |-> pc, returnObj |-> returnObj, result |-> result]

(* ------------------------------------------------- concurrent requests *)
(* Two requests in flight on the gateway, and the keys and values they    *)
(* write to the record of n1.                                             *)
Writers == {"w1", "w2"}
WrittenKeys == {"address", "avatar"}
WrittenValues == {"v1", "v2"}

(* One setText request: where it stands, what it writes, the fingerprint  *)
(* repo.setText computed for it and the one withSigner recomputed.        *)
IdleWriter ==
  [pc |-> "idle", key |-> None, value |-> None, constitutionHash |-> Absent,
   recomputed |-> Absent]

(* The store, the requests, and for each key the value of the last update *)
(* the store applied to it.                                               *)
RaceStart ==
  [db |-> [n \in Nodes |-> IF n = "n1" THEN NewRecord(n) ELSE NoRecord],
   w |-> [x \in Writers |-> IdleWriter],
   last |-> [k \in WrittenKeys |-> Undefined]]

(* ---------------------------------------------------- repository reads *)
(* The identities a read is made with: the nodeHash of a record, or the   *)
(* LEI hash of one.                                                       *)
LookupNodes == Nodes \cup {LEIHashOf(n) : n \in Nodes}

(* A read of the repository: the method, its arguments, the store it was  *)
(* made of and what it returned.                                          *)
Lookup(fn, node, key, store, returned) ==
  [fn |-> fn, node |-> node, key |-> key, store |-> store, returned |-> returned]

NoLookup == Lookup(None, None, None, <<>>, Undefined)

(* ------------------------------------------------------ Dispatch Engine *)
VARIABLES
  handlers,   \* Server.handlers: selector -> Handler
  phase,      \* "setup" while the server is composed, "serving" once it listens
  db,         \* the EntityResolverRecord collection, by nodeHash
  req,        \* per request: where handleRequest stands and what res was sent
  task,       \* per request: the pending Server.call of slot 0 and, for a
              \* multicall, of each inner call 1..n
  added,      \* the handler lists passed to Server.add so far (history, kept
              \* by the registry specification AddSpec only)
  signing,    \* two signing requests and the envelopes made for them (the
              \* digest specification HashSpec only)
  mw,         \* per request: where the withSigner hook on res.json stands, and
              \* what was sent to the client (the gateway specification
              \* SignerSpec only)
  l2,         \* the L2Resolver contract: its storage and its last transaction
              \* (the specification L2Spec only)
  resolver,   \* the DatabaseResolver contract: its storage and its last call
              \* (the specification ResolverSpec only)
  own,        \* a transfer call: the chain it reads, the owners stored, and
              \* where the handler and verifyOwnership stand (the
              \* specification TransferSpec only)
  lookup,     \* the last read made of the repository and what it returned
              \* (the specification ReadSpec only)
  l1,         \* the L1Resolver contract: its targets and its last transaction
              \* (the specification L1Spec only)
  reg,        \* a register call: the record the repository returned and the
              \* handler's result (the specification RegisterSpec only)
  race        \* concurrent setText requests on one node: the stored record
              \* and where each request stands (the specification RaceSpec
              \* only)

vars ==
  <<handlers, phase, db, req, task, added, signing, mw, l2, resolver, own,
    lookup, l1, reg, race>>

(* The contracts and the transfer call, which the gateway's steps leave   *)
(* alone.                                                                 *)
ext == <<l2, resolver, own, lookup, l1, reg, race>>

ExtInit ==
  /\ l2 = L2Deployed
  /\ resolver = ResolverDeployed("alice", "url1", {})
  /\ own = OwnStart([n \in Nodes |-> "0xmultisig"], {})
  /\ lookup = NoLookup
  /\ l1 = L1Deployed("alice", 10, "0xl2resolver", "0xl2registrar")
  /\ reg = Registration("idle", [idx \in SchemaPartners |-> NoPartner], <<>>)
  /\ race = RaceStart

(* What the steps of the dispatch engine and of the handlers leave alone. *)
aux == <<added, signing, mw, ext>>

(* A pending Server.call: where it stands, its RPCCall, `result` once the  *)
(* handler's promise resolved (<<>> until then), and what the call yields. *)
IdleTask ==
  [pc |-> "idle", data |-> NoData, signature |-> Undefined, result |-> <<>>,
   out |-> NoOutcome, constitutionHash |-> Absent]

IdleReq == [st |-> "idle", sender |-> None, callData |-> NoData, res |-> <<>>]

(* The first suspension point of each business function.                  *)
FirstAwait(func) ==
  CASE func = "multicall" -> "gather"
    [] func = "withGetText" -> "getText"
    [] func = "withSetText" -> "verifyOwnership"
    [] func = "withSetAddr" -> "setAddr"
    [] func = "library" -> "library"

(* call, answering a missing handler like a malformed request (400).      *)
callMissingHandler400(table, data, signature) ==
  LET selector == data.sel
      handler == table[selector]
      started == [IdleTask EXCEPT !.data = data, !.signature = signature]
  IN IF handler.func = Undefined
       THEN [started EXCEPT
               !.pc = "done",
               !.out = Returned(400, Body(NoImplementation(selector), Absent, Undefined))]
     ELSE IF ~data.ok
       THEN [started EXCEPT !.pc = "done", !.out = Threw(Msg("data out-of-bounds"))]
     ELSE [started EXCEPT !.pc = FirstAwait(handler.func)]

(* call, answering undecodable arguments with a 400 response.             *)
callDecodeFailure400(table, data, signature) ==
  LET selector == data.sel
      handler == table[selector]
      started == [IdleTask EXCEPT !.data = data, !.signature = signature]
  IN IF handler.func = Undefined
       THEN [started EXCEPT
               !.pc = "done",
               !.out = Returned(404, Body(NoImplementation(selector), Absent, Undefined))]
     ELSE IF ~data.ok
       THEN [started EXCEPT
               !.pc = "done",
               !.out = Returned(400, Body(Msg("data out-of-bounds"), Absent, Undefined))]
     ELSE [started EXCEPT !.pc = FirstAwait(handler.func)]

(* Server.call up to the handler's first await: selector lookup, argument *)
(* decoding, invocation.                                                  *)
call(table, data, signature) ==
  LET selector == data.sel
      handler == table[selector]
      started == [IdleTask EXCEPT !.data = data, !.signature = signature]
  IN IF handler.func = Undefined
       THEN [started EXCEPT
               !.pc = "done",
               !.out = Returned(404, Body(NoImplementation(selector), Absent, Undefined))]
     ELSE IF ~data.ok
       THEN [started EXCEPT !.pc = "done", !.out = Threw(Msg("data out-of-bounds"))]
     ELSE [started EXCEPT !.pc = FirstAwait(handler.func)]

(* Server.call after the handler's promise settled with `result`.         *)
callReturn(handler, result) ==
  IF result.defined /\ result.error # NoError
    THEN Returned(result.error.status, Body(Absent, result.error.message, Undefined))
  ELSE IF handler.type.outputs # Absent /\ result.defined /\ result.hasData
          /\ Len(result.data) > 0
    THEN IF Len(handler.type.outputs) # Len(result.data)
           THEN Threw(Msg("types/values length mismatch"))
           ELSE Returned(200, Body(Absent,
                                   AbiEncode(handler.type.outputs, result.data),
                                   result.extraData))
  ELSE Returned(200, Body(Absent, EmptyBytes, result.extraData))

(* What the promise of each business function rejects with when it fails: *)
(* the repository's query error, or whatever a client's handler throws.   *)
HandlerFailure(func) ==
  IF func = "library" THEN Msg("handler failed") ELSE Msg("connection lost")

(* callThrow, with the handler's error caught and turned into a response. *)
callThrowCaught(err) == Returned(400, Body(err, Absent, Undefined))

(* A rejected handler promise rejects the promise of Server.call.         *)
callThrow(err) == Threw(err)

(* One slot of the multicall result, from the settled inner call.         *)
multicallSlot(outcome) ==
  IF outcome.kind = "returned" /\ outcome.status = 200
    THEN outcome.body.data
    ELSE LET error ==
               IF outcome.kind = "returned"
                 THEN IF outcome.body.message # Absent
                        THEN outcome.body.message
                        ELSE Msg("unknown error")
                 ELSE StringOfError(outcome.err)
         IN hexConcat(ErrorSelector, AbiEncode(<<"string">>, <<error>>))

(* multicallResults, filling the slots from the last input to the first. *)
multicallResultsReversed(tasks, n) ==
  [i \in 1..n |-> multicallSlot(tasks[n + 1 - i].out)]

(* Promise.all over the inner calls: the slots in input order.            *)
multicallResults(tasks, n) == [i \in 1..n |-> multicallSlot(tasks[i].out)]

(* --------------------------------------------------------------- steps - *)
ServerInit ==
  /\ handlers = addMulticallSupport([s \in Selectors |-> NoHandler])
  /\ phase = "setup"
  /\ db = [n \in Nodes |-> IF n = "n1" THEN NewRecord(n) ELSE NoRecord]
  /\ req = [r \in Reqs |-> IdleReq]
  /\ task = [r \in Reqs |-> [i \in Slots |-> IdleTask]]
  /\ added = <<>>

Init ==
  /\ ServerInit
  /\ signing = NoSigning
  /\ mw = [r \in Reqs |-> IdleMw]
  /\ ExtInit

(* server.add(abi, handlers) while the gateway is composed.               *)
Add(hs) ==
  /\ phase = "setup"
  /\ handlers' = add(handlers, hs)
  /\ UNCHANGED <<phase, db, req, task, aux>>

(* server.makeApp('/').listen(port).                                      *)
Listen ==
  /\ phase = "setup"
  /\ phase' = "serving"
  /\ UNCHANGED <<handlers, db, req, task, aux>>

(* The tasks of request r once Server.call(data) ran to its first await:  *)
(* a multicall handler starts every inner call, without the signature.    *)
Dispatch(data, signature) ==
  LET top == call(handlers, data, signature)
  IN [i \in Slots |->
        IF i = 0 THEN top
        ELSE IF top.pc = "gather" /\ i <= Len(data.inner)
          THEN call(handlers, data.inner[i], Undefined)
          ELSE IdleTask]

(* isAddress, taking any non-empty string for an address.                 *)
isAddressAnyString(sender) == sender # None

isAddress(sender) == sender = "0xresolver"
isBytesLike(callData) == callData.sel # Undefined

HttpResponse(status, body) == [status |-> status, body |-> body]

(* handleRequest up to `await this.call(...)`.                            *)
handleRequest(r) ==
  /\ phase = "serving"
  /\ req[r].st = "idle"
  /\ \E method \in {"GET", "POST"}, sender \in Senders,
        callData \in CallDatas \cup {NotBytes} :
       IF ~isAddress(sender) \/ ~isBytesLike(callData)
         THEN /\ req' = [req EXCEPT ![r] =
                          [st |-> "done", sender |-> sender, callData |-> callData,
                           res |-> <<HttpResponse(400,
                                       Body(Msg("Invalid request format"),
                                            Absent, Undefined))>>]]
              /\ UNCHANGED task
         ELSE /\ req' = [req EXCEPT ![r] =
                          [st |-> "http", sender |-> sender, callData |-> callData,
                           res |-> <<>>]]
              /\ task' = [task EXCEPT ![r] = Dispatch(callData, Undefined)]
  /\ UNCHANGED <<handlers, phase, db, aux>>

(* Respond without the try/catch: a dispatch that threw ends the request  *)
(* with nothing sent.                                                     *)
RespondUncaught(r) ==
  /\ req[r].st = "http"
  /\ task[r][0].pc = "done"
  /\ LET out == task[r][0].out
     IN req' = [req EXCEPT
                  ![r].st = "done",
                  ![r].res = IF out.kind = "returned"
                               THEN Append(req[r].res,
                                           HttpResponse(out.status, out.body))
                               ELSE req[r].res]
  /\ UNCHANGED <<handlers, phase, db, task, aux>>

(* handleRequest after `await this.call(...)`.                            *)
Respond(r) ==
  /\ req[r].st = "http"
  /\ task[r][0].pc = "done"
  /\ LET out == task[r][0].out
         sent == IF out.kind = "returned"
                   THEN HttpResponse(out.status, out.body)
                   ELSE HttpResponse(500,
                          Body(InternalServerError(StringOfError(out.err)),
                               Absent, Undefined))
     IN req' = [req EXCEPT ![r].st = "done", ![r].res = Append(req[r].res, sent)]
  /\ UNCHANGED <<handlers, phase, db, task, aux>>

(* Call, storing a placeholder entry for a selector it found no handler   *)
(* for.                                                                   *)
CallCachingMiss(r) ==
  /\ phase = "serving"
  /\ req[r].st = "idle"
  /\ \E data \in CallDatas, signature \in Signatures :
       /\ req' = [req EXCEPT ![r].st = "call"]
       /\ task' = [task EXCEPT ![r] = Dispatch(data, signature)]
       /\ handlers' = IF handlers[data.sel].func = Undefined
                        THEN [handlers EXCEPT ![data.sel].func = "library"]
                        ELSE handlers
  /\ UNCHANGED <<phase, db, aux>>

(* Server.call invoked by the embedding gateway with an RPCCall that may  *)
(* carry the caller's typed signature.                                    *)
Call(r) ==
  /\ phase = "serving"
  /\ req[r].st = "idle"
  /\ \E data \in CallDatas, signature \in Signatures :
       /\ req' = [req EXCEPT ![r].st = "call"]
       /\ task' = [task EXCEPT ![r] = Dispatch(data, signature)]
  /\ UNCHANGED <<handlers, phase, db, aux>>

(* The request is over; its slot is free for the next one.                *)
Close(r) ==
  /\ \/ req[r].st = "done"
     \/ req[r].st = "call" /\ task[r][0].pc = "done"
  /\ req' = [req EXCEPT ![r] = IdleReq]
  /\ task' = [task EXCEPT ![r] = [i \in Slots |-> IdleTask]]
  /\ UNCHANGED <<handlers, phase, db, aux>>

(* The pending call of slot i settles with the handler's result.          *)
Settle(r, i, result) ==
  task' = [task EXCEPT ![r][i].pc = "done",
                       ![r][i].constitutionHash = Absent,
                       ![r][i].result = <<result>>,
                       ![r][i].out = callReturn(handlers[task[r][i].data.sel], result)]

Reject(r, i, err) ==
  task' = [task EXCEPT ![r][i].pc = "done", ![r][i].out = callThrow(err)]

(* MongoRepository.verifyOwnership, one of the validator's repositories,  *)
(* asked while the handler waits for validator.verifyOwnership: the       *)
(* signer is the on-chain owner of the node, and the owner is upserted.   *)
MongoVerifyOwnership(r, i) ==
  LET t == task[r][i]
  IN /\ t.pc = "verifyOwnership"
     /\ verifyOwnership(t.data.node, t.signature)
     /\ db' = updateOneUpsert(db, t.data.node)
     /\ UNCHANGED <<handlers, phase, req, task, aux>>

(* withSetTextVerify, saving the text whoever signed the call.            *)
withSetTextVerifyAnyone(r, i) ==
  LET t == task[r][i]
  IN /\ t.pc = "verifyOwnership"
     /\ IF t.data.key \in ReservedKeys
          THEN Settle(r, i, ReturnedError("Reserved key", 400))
        ELSE IF t.signature = Undefined
          THEN Settle(r, i, ReturnedError("Unable to save text", 400))
        ELSE task' = [task EXCEPT ![r][i].pc = "fetch"]
     /\ UNCHANGED <<handlers, phase, db, req, aux>>

(* withSetTextVerify, testing the key before the ownership.               *)
withSetTextVerifyKeyFirst(r, i) ==
  LET t == task[r][i]
      isOwner == verifyOwnership(t.data.node, t.signature)
  IN /\ t.pc = "verifyOwnership"
     /\ IF t.data.key \in ReservedKeys
          THEN Settle(r, i, ReturnedError("Reserved key", 400))
        ELSE IF ~isOwner
          THEN Settle(r, i, ReturnedError("Unauthorized", 401))
        ELSE IF t.signature = Undefined
          THEN Settle(r, i, ReturnedError("Unable to save text", 400))
        ELSE task' = [task EXCEPT ![r][i].pc = "fetch"]
     /\ UNCHANGED <<handlers, phase, db, req, aux>>

(* withSetText, from `await validator.verifyOwnership(...)` to the fetch  *)
(* that repo.setText starts with.                                         *)
withSetTextVerify(r, i) ==
  LET t == task[r][i]
      isOwner == verifyOwnership(t.data.node, t.signature)
  IN /\ t.pc = "verifyOwnership"
     /\ IF ~isOwner
          THEN Settle(r, i, ReturnedError("Unauthorized", 401))
        ELSE IF t.data.key \in ReservedKeys
          THEN Settle(r, i, ReturnedError("Reserved key", 400))
        ELSE IF t.signature = Undefined
          THEN Settle(r, i, ReturnedError("Unable to save text", 400))
        ELSE task' = [task EXCEPT ![r][i].pc = "fetch"]
     /\ UNCHANGED <<handlers, phase, db, req, aux>>

(* repo.setText: fetchAndPrepareRecord answered; the fingerprint of the   *)
(* record with the key set is computed and the update is sent.            *)
withSetTextFetch(r, i) ==
  LET t == task[r][i]
  IN /\ t.pc = "fetch"
     /\ IF ~db[t.data.node].exists
          THEN Settle(r, i, ReturnedError("Unable to save text", 400))
          ELSE task' = [task EXCEPT
                          ![r][i].pc = "update",
                          ![r][i].constitutionHash =
                            setTextHash(db[t.data.node], t.data.key, t.data.value)]
     /\ UNCHANGED <<handlers, phase, db, req, aux>>

(* repo.setText: findOneAndUpdate answered; the handler returns           *)
(* [node, record.constitutionHash].                                       *)
withSetTextUpdate(r, i) ==
  LET t == task[r][i]
  IN /\ t.pc = "update"
     /\ db' = setTextUpdate(db, t.data.node, t.data.key, t.data.value,
                            t.constitutionHash)
     /\ IF db[t.data.node].exists
          THEN Settle(r, i, HandlerResponse(TRUE,
                              <<t.data.node, db'[t.data.node].constitutionHash>>,
                              TTL100Days, NoError))
          ELSE Settle(r, i, ReturnedError("Unable to save text", 400))
     /\ UNCHANGED <<handlers, phase, req, aux>>

(* withGetText, reporting a missing text as an error.                     *)
withGetTextNotFound(r, i) ==
  LET t == task[r][i]
      text == getText(db, t.data.node, t.data.key)
  IN /\ t.pc = "getText"
     /\ \E ok \in BOOLEAN :
          IF ~ok THEN Reject(r, i, HandlerFailure("withGetText"))
          ELSE IF Truthy(text)
            THEN Settle(r, i, HandlerResponse(TRUE, <<text>>, TTL100Days, NoError))
            ELSE Settle(r, i, ReturnedError("Text not found", 404))
     /\ UNCHANGED <<handlers, phase, db, req, aux>>

(* withGetText: `await repo.getText(...)` answered, or the query failed.  *)
withGetText(r, i) ==
  LET t == task[r][i]
      text == getText(db, t.data.node, t.data.key)
  IN /\ t.pc = "getText"
     /\ \E ok \in BOOLEAN :
          IF ~ok THEN Reject(r, i, HandlerFailure("withGetText"))
          ELSE IF Truthy(text)
            THEN Settle(r, i, HandlerResponse(TRUE, <<text>>, TTL100Days, NoError))
            ELSE Settle(r, i, ReturnedUndefined)
     /\ UNCHANGED <<handlers, phase, db, req, aux>>

(* withSetAddr: `await repo.setAddr(params)` answered, then `return []`;  *)
(* or the update failed.                                                  *)
withSetAddr(r, i) ==
  LET t == task[r][i]
  IN /\ t.pc = "setAddr"
     /\ \E ok \in BOOLEAN :
          IF ~ok
            THEN Reject(r, i, HandlerFailure("withSetAddr")) /\ UNCHANGED db
            ELSE /\ db' = setAddr(db, t.data.node, t.data.value)
                 /\ Settle(r, i, ReturnedEmpty)
     /\ UNCHANGED <<handlers, phase, req, aux>>

(* A handler a client of the library registered: any HandlerFunc.         *)
LibraryResults ==
  {HandlerResponse(TRUE, <<>>, Undefined, NoError),
   HandlerResponse(TRUE, <<"pong">>, "60", NoError),
   ReturnedError("Teapot", 418)}

libraryHandler(r, i) ==
  /\ task[r][i].pc = "library"
  /\ \/ \E result \in LibraryResults : Settle(r, i, result)
     \/ Reject(r, i, HandlerFailure("library"))
  /\ UNCHANGED <<handlers, phase, db, req, aux>>

(* multicall, rejecting the batch as soon as one inner call failed.       *)
multicallFailFast(r) ==
  LET n == Len(task[r][0].data.inner)
      failed(i) == ~(task[r][i].out.kind = "returned" /\ task[r][i].out.status = 200)
  IN /\ task[r][0].pc = "gather"
     /\ \A i \in 1..n : task[r][i].pc = "done"
     /\ IF \E i \in 1..n : failed(i)
          THEN Reject(r, 0, Msg("inner call failed"))
          ELSE Settle(r, 0, HandlerResponse(TRUE, <<multicallResults(task[r], n)>>,
                                            Undefined, NoError))
     /\ UNCHANGED <<handlers, phase, db, req, aux>>

(* The multicall handler: every inner call settled, Promise.all resolves. *)
multicall(r) ==
  LET n == Len(task[r][0].data.inner)
  IN /\ task[r][0].pc = "gather"
     /\ \A i \in 1..n : task[r][i].pc = "done"
     /\ Settle(r, 0, HandlerResponse(TRUE, <<multicallResults(task[r], n)>>,
                                     Undefined, NoError))
     /\ UNCHANGED <<handlers, phase, db, req, aux>>

Next ==
  \/ \E hs \in HandlerLists : Add(hs)
  \/ Listen
  \/ \E r \in Reqs : handleRequest(r)
  \/ \E r \in Reqs : Respond(r)
  \/ \E r \in Reqs : Call(r)
  \/ \E r \in Reqs : Close(r)
  \/ \E r \in Reqs, i \in Slots :
       \/ withSetTextVerify(r, i)
       \/ withSetTextFetch(r, i)
       \/ withSetTextUpdate(r, i)
       \/ withGetText(r, i)
       \/ withSetAddr(r, i)
       \/ libraryHandler(r, i)
  \/ \E r \in Reqs : multicall(r)

Spec == Init /\ [][Next]_vars

(* ------------------------------------------------- the handler registry *)
(* Any composition of a server: Server.add called up to MaxAdds times     *)
(* with lists of one or two handlers, for selectors that are registered   *)
(* once, several times, or (multicall) already by the constructor.        *)
AnyHandlers ==
  {HandlerDescription(s, f) :
     s \in {"text", "ping", "multicall"}, f \in {"library", "withGetText"}}

AnyHandlerLists ==
  {<<h>> : h \in AnyHandlers} \cup {<<h, g>> : h \in AnyHandlers, g \in AnyHandlers}

ServerAdd(hs) ==
  /\ phase = "setup"
  /\ Len(added) < MaxAdds
  /\ handlers' = add(handlers, hs)
  /\ added' = Append(added, hs)
  /\ UNCHANGED <<phase, db, req, task, signing, mw, ext>>

AddNext == \E hs \in AnyHandlerLists : ServerAdd(hs)

AddSpec == Init /\ [][AddNext]_vars

(* --------------------------------------------- gateway with withSigner *)
(* The composed gateway (server.add(abi, withGetText, withSetText,        *)
(* withSetAddr), withSigner installed before handleRequest), serving a    *)
(* store in which n1 is registered, with or without an avatar.            *)
RegisteredWith(node, key, value) ==
  LET fields == [NewRecord(node).fields EXCEPT ![key] = value]
  IN [exists |-> TRUE, fields |-> fields,
      constitutionHash |-> keccak256(fetchAndPrepareRecord(fields))]

SignerInit ==
  /\ handlers = add(addMulticallSupport([s \in Selectors |-> NoHandler]),
                    GatewayHandlers)
  /\ phase = "serving"
  /\ db \in {[n \in Nodes |-> IF n = "n1" THEN rec ELSE NoRecord] :
               rec \in {NewRecord("n1"), RegisteredWith("n1", "avatar", "v2")}}
  /\ req = [r \in Reqs |-> IdleReq]
  /\ task = [r \in Reqs |-> [i \in Slots |-> IdleTask]]
  /\ added = <<>>
  /\ signing = NoSigning
  /\ mw = [r \in Reqs |-> IdleMw]
  /\ ExtInit

(* The calls that reach the gateway.                                      *)
GatewayInnerCalls ==
  {CD("text", TRUE, "n1", "avatar", None, <<>>),
   CD("text", TRUE, NodeWith10f13a8c, "avatar", None, <<>>),
   CD("setAddr", TRUE, "n1", None, "a1", <<>>),
   CD("setText", TRUE, "n1", "avatar", "v1", <<>>)}

GatewayCallDatas ==
  TextCalls \cup SetTextCalls \cup SetAddrCalls \cup UnknownCalls
    \cup {CD("multicall", TRUE, None, None, None, b) :
            b \in UNION {[1..n -> GatewayInnerCalls] : n \in 0..MaxBatch}}

(* The tasks of a request of the gateway's server: as Dispatch, with the  *)
(* request's typed signature handed to every inner call of a multicall.   *)
gatewayDispatch(data, signature) ==
  LET top == call(handlers, data, signature)
  IN [i \in Slots |->
        IF i = 0 THEN top
        ELSE IF top.pc = "gather" /\ i <= Len(data.inner)
          THEN call(handlers, data.inner[i], signature)
          ELSE IdleTask]

(* handleRequest of the gateway's server up to `await this.call(...)`: as *)
(* handleRequest above, with the typed signature the request carries (if  *)
(* any) handed to the call.                                               *)
gatewayRequest(r) ==
  /\ req[r].st = "idle"
  /\ \E sender \in Senders, callData \in GatewayCallDatas,
        signature \in Signatures \cup {Undefined} :
       IF ~isAddress(sender) \/ ~isBytesLike(callData)
         THEN /\ req' = [req EXCEPT ![r] =
                          [st |-> "done", sender |-> sender, callData |-> callData,
                           res |-> <<HttpResponse(400,
                                       Body(Msg("Invalid request format"),
                                            Absent, Undefined))>>]]
              /\ UNCHANGED task
         ELSE /\ req' = [req EXCEPT ![r] =
                          [st |-> "http", sender |-> sender, callData |-> callData,
                           res |-> <<>>]]
              /\ task' = [task EXCEPT ![r] = gatewayDispatch(callData, signature)]
  /\ UNCHANGED <<handlers, phase, db, aux>>

(* mung.onError: the rejection of the hooked function is answered with    *)
(* res.status(500).json({message: err.message}), sent as it is.           *)
onErrorFailOpen(r, err) ==
  mw' = [mw EXCEPT ![r].pc = "sent", ![r].threw = err,
                   ![r].sent = <<ClientResponse(req[r].res[1].status, Absent,
                                                mw[r].body.data, mw[r].body.ttl,
                                                Absent)>>]

onError(r, err) ==
  mw' = [mw EXCEPT ![r].pc = "sent", ![r].threw = err,
                   ![r].sent = <<ClientResponse(500, err, Absent, Undefined, Absent)>>]

(* The original res.json: the body goes out as it is.                     *)
sendPlain(r, status, body) ==
  mw' = [mw EXCEPT ![r].pc = "sent", ![r].body = body,
                   ![r].sent = <<ClientResponse(status, body.message, body.data,
                                                body.ttl, Absent)>>]

(* signerHook, without the early return for an empty data.                *)
signerHookFetchesEmpty(r) ==
  /\ req[r].st = "done"
  /\ mw[r].pc = "idle"
  /\ \E ttl \in HookTTLs :
       LET res == req[r].res[1]
           callData == req[r].callData
           body == [res.body EXCEPT !.ttl = IF @ = Undefined THEN ttl ELSE @]
       IN IF res.status >= 400 THEN sendPlain(r, res.status, res.body)
          ELSE mw' = [mw EXCEPT ![r].pc = "fetch", ![r].body = body,
                                ![r].nodeHash = signerNodeHash(callData, body.data)]
  /\ UNCHANGED <<handlers, phase, db, req, task, added, signing, ext>>

(* signerHook, stamping its own ttl on every body.                        *)
signerHookResetsTtl(r) ==
  /\ req[r].st = "done"
  /\ mw[r].pc = "idle"
  /\ \E ttl \in HookTTLs :
       LET res == req[r].res[1]
           callData == req[r].callData
           body == [res.body EXCEPT !.ttl = IF TRUE THEN ttl ELSE @]
       IN IF res.status >= 400 THEN sendPlain(r, res.status, res.body)
          ELSE IF body.data = EmptyBytes THEN sendPlain(r, res.status, body)
          ELSE mw' = [mw EXCEPT ![r].pc = "fetch", ![r].body = body,
                                ![r].nodeHash = signerNodeHash(callData, body.data)]
  /\ UNCHANGED <<handlers, phase, db, req, task, added, signing, ext>>

(* The hook mung.jsonAsync put on res.json, and withSigner's function up  *)
(* to `await repo.fetchAndPrepareRecord({nodeHash})`.                     *)
signerHook(r) ==
  /\ req[r].st = "done"
  /\ mw[r].pc = "idle"
  /\ \E ttl \in HookTTLs :
       LET res == req[r].res[1]
           callData == req[r].callData
           body == [res.body EXCEPT !.ttl = IF @ = Undefined THEN ttl ELSE @]
       IN IF res.status >= 400 THEN sendPlain(r, res.status, res.body)
          ELSE IF body.data = EmptyBytes THEN sendPlain(r, res.status, body)
          ELSE mw' = [mw EXCEPT ![r].pc = "fetch", ![r].body = body,
                                ![r].nodeHash = signerNodeHash(callData, body.data)]
  /\ UNCHANGED <<handlers, phase, db, req, task, added, signing, ext>>

(* fetchAndPrepareRecord answered; the fingerprint is computed and the    *)
(* update is sent.                                                        *)
signerFetch(r) ==
  /\ mw[r].pc = "fetch"
  /\ \E ok \in BOOLEAN :
       IF ~ok THEN onError(r, Msg("connection lost"))
       ELSE IF ~(mw[r].nodeHash \in Nodes /\ db[mw[r].nodeHash].exists)
         THEN onError(r, Msg("Record not found"))
       ELSE mw' = [mw EXCEPT
                     ![r].pc = "persist",
                     ![r].constitutionHash =
                       keccak256(fetchAndPrepareRecord(db[mw[r].nodeHash].fields))]
  /\ UNCHANGED <<handlers, phase, db, req, task, added, signing, ext>>

(* signerPersist, leaving the stored fingerprint as it is.                *)
signerPersistSkipped(r) ==
  /\ mw[r].pc = "persist"
  /\ \E ok \in BOOLEAN :
       IF ~ok THEN onError(r, Msg("connection lost"))
       ELSE mw' = [mw EXCEPT
                     ![r].pc = "sign",
                     ![r].body.data =
                       IF isTracked(req[r].callData)
                         THEN NodeAndFingerprint(mw[r].nodeHash,
                                                 mw[r].constitutionHash)
                         ELSE @]
  /\ UNCHANGED <<handlers, phase, db, req, task, added, signing, ext>>

(* findOneAndUpdate({nodeHash}, {constitutionHash}) answered; the data of *)
(* a tracked call becomes nodeHash || constitutionHash and the digest is  *)
(* signed.                                                                *)
signerPersist(r) ==
  /\ mw[r].pc = "persist"
  /\ \E ok \in BOOLEAN :
       IF ~ok THEN onError(r, Msg("connection lost")) /\ UNCHANGED db
       ELSE /\ db' = IF db[mw[r].nodeHash].exists
                       THEN [db EXCEPT ![mw[r].nodeHash].constitutionHash =
                                         mw[r].constitutionHash]
                       ELSE db
            /\ mw' = [mw EXCEPT
                        ![r].pc = "sign",
                        ![r].body.data =
                          IF isTracked(req[r].callData)
                            THEN NodeAndFingerprint(mw[r].nodeHash,
                                                    mw[r].constitutionHash)
                            ELSE @]
  /\ UNCHANGED <<handlers, phase, req, task, added, signing, ext>>

(* signerSign, hashing the data the handler produced instead of the data  *)
(* the envelope carries.                                                  *)
signerSignHandedData(r) ==
  /\ mw[r].pc = "sign"
  /\ LET body == mw[r].body
         msgHash == makeMessageHash(req[r].sender, body.ttl, req[r].callData,
                                    req[r].res[1].body.data)
     IN \E ok \in BOOLEAN :
          IF ~ok THEN onError(r, Msg("signing failed"))
          ELSE mw' = [mw EXCEPT
                        ![r].pc = "sent",
                        ![r].sent =
                          <<ClientResponse(200, Absent, body.data, body.ttl,
                                           signMessage(GatewayPrivateKey, msgHash))>>]
  /\ UNCHANGED <<handlers, phase, db, req, task, added, signing, ext>>

(* signer.signMessage answered: the envelope is sent, or signing failed.  *)
signerSign(r) ==
  /\ mw[r].pc = "sign"
  /\ LET body == mw[r].body
         msgHash == makeMessageHash(req[r].sender, body.ttl, req[r].callData,
                                    body.data)
     IN \E ok \in BOOLEAN :
          IF ~ok THEN onError(r, Msg("signing failed"))
          ELSE mw' = [mw EXCEPT
                        ![r].pc = "sent",
                        ![r].sent =
                          <<ClientResponse(200, Absent, body.data, body.ttl,
                                           signMessage(GatewayPrivateKey, msgHash))>>]
  /\ UNCHANGED <<handlers, phase, db, req, task, added, signing, ext>>

(* The response went out; the request is over.                            *)
gatewayClose(r) ==
  /\ mw[r].pc = "sent"
  /\ req' = [req EXCEPT ![r] = IdleReq]
  /\ task' = [task EXCEPT ![r] = [i \in Slots |-> IdleTask]]
  /\ mw' = [mw EXCEPT ![r] = IdleMw]
  /\ UNCHANGED <<handlers, phase, db, added, signing, ext>>

SignerNext ==
  \/ \E r \in Reqs : gatewayRequest(r)
  \/ \E r \in Reqs : Respond(r)
  \/ \E r \in Reqs, i \in Slots :
       \/ withSetTextVerify(r, i)
       \/ withSetTextFetch(r, i)
       \/ withSetTextUpdate(r, i)
       \/ withGetText(r, i)
       \/ withSetAddr(r, i)
  \/ \E r \in Reqs : multicall(r)
  \/ \E r \in Reqs : signerHook(r)
  \/ \E r \in Reqs : signerFetch(r)
  \/ \E r \in Reqs : signerPersist(r)
  \/ \E r \in Reqs : signerSign(r)
  \/ \E r \in Reqs : gatewayClose(r)

SignerSpec == SignerInit /\ [][SignerNext]_vars

(* ------------------------------------------------- the gateway's writes *)
(* setText calls on the composed gateway, whose ownership validator asks  *)
(* its repositories in turn ([ethClient, repo]): the answer comes from    *)
(* the chain client, or from MongoRepository.verifyOwnership.             *)
WriteCalls == SetTextCalls \cup {CD("setText", TRUE, "n2", "pubkey", "v1", <<>>)}

CallSetText(r) ==
  /\ phase = "serving"
  /\ req[r].st = "idle"
  /\ \E data \in WriteCalls, signature \in Signatures \cup {Undefined} :
       /\ req' = [req EXCEPT ![r].st = "call"]
       /\ task' = [task EXCEPT ![r] = gatewayDispatch(data, signature)]
  /\ UNCHANGED <<handlers, phase, db, aux>>

WriteNext ==
  \/ \E r \in Reqs : CallSetText(r)
  \/ \E r \in Reqs, i \in Slots :
       \/ MongoVerifyOwnership(r, i)
       \/ withSetTextVerify(r, i)
       \/ withSetTextFetch(r, i)
       \/ withSetTextUpdate(r, i)
  \/ \E r \in Reqs : Close(r)

WriteSpec == SignerInit /\ [][WriteNext]_vars

(* ------------------------------------------------------ signing digests *)
(* Two requests reach the signer; each gets its digest and signature.     *)
HashInit ==
  /\ ServerInit
  /\ signing \in {[in |-> <<a, b>>, out |-> <<>>] :
                     a \in SigningInputs, b \in SigningInputs}
  /\ mw = [r \in Reqs |-> IdleMw]
  /\ ExtInit

SignBoth ==
  /\ signing.in # <<>>
  /\ signing.out = <<>>
  /\ signing' = [signing EXCEPT !.out = <<Signed(signing.in[1]),
                                          Signed(signing.in[2])>>]
  /\ UNCHANGED <<handlers, phase, db, req, task, added, mw, ext>>

HashSpec == HashInit /\ [][SignBoth]_vars

(* ---------------------------------------------------------- L2Resolver *)
(* Transactions on a deployed L2Resolver, from any account.               *)
L2Revert(fn, sender, node, arg, reason) ==
  l2' = [l2 EXCEPT !.last = Tx(fn, sender, node, arg, reason, None, l2.storage)]

L2Done(fn, sender, node, arg, storage) ==
  l2' = [storage |-> storage,
         last |-> Tx(fn, sender, node, arg, None, None, l2.storage)]

L2Untouched ==
  <<handlers, phase, db, req, task, added, signing, mw, resolver, own,
    lookup, l1, reg, race>>

(* register(bytes32 node)                                                 *)
register(sender, node) ==
  /\ IF owner(l2.storage, node) # sender
       THEN L2Revert("register", sender, node, None, "L2Resolver__UnavailableDomain")
       ELSE L2Done("register", sender, node, None,
                   [l2.storage EXCEPT !.owners[node] = sender])
  /\ UNCHANGED L2Untouched

(* setOwner(bytes32 node, address _owner) public authorised(node)         *)
setOwner(sender, node, _owner) ==
  /\ IF ~isAuthorised(l2.storage, node, sender)
       THEN L2Revert("setOwner", sender, node, _owner, "revert")
       ELSE L2Done("setOwner", sender, node, _owner,
                   [l2.storage EXCEPT !.owners[node] = _owner])
  /\ UNCHANGED L2Untouched

(* TextResolver.setText(node, key, value) external authorised(node)       *)
setText(sender, node, value) ==
  /\ IF ~isAuthorised(l2.storage, node, sender)
       THEN L2Revert("setText", sender, node, value, "revert")
       ELSE L2Done("setText", sender, node, value,
                   [l2.storage EXCEPT !.texts[node] = value])
  /\ UNCHANGED L2Untouched

L2Next ==
  \E sender \in Accounts, node \in Nodes :
    \/ register(sender, node)
    \/ \E _owner \in Accounts \cup {ZeroAddress} : setOwner(sender, node, _owner)
    \/ \E value \in Values : setText(sender, node, value)

L2Spec == Init /\ [][L2Next]_vars

(* ---------------------------------------------------- DatabaseResolver *)
(* Transactions and calls on a deployed DatabaseResolver.                 *)
ResolverRevert(fn, sender, arg, reason) ==
  resolver' = [resolver EXCEPT
                 !.last = Tx(fn, sender, None, arg, reason, None, resolver.storage)]

ResolverDone(fn, sender, arg, returned, storage, removed) ==
  resolver' = [storage |-> storage, removed |-> removed,
               last |-> Tx(fn, sender, None, arg, None, returned, resolver.storage)]

ResolverUntouched ==
  <<handlers, phase, db, req, task, added, signing, mw, l2, own,
    lookup, l1, reg, race>>

NotTheOwner == "Ownable: caller is not the owner"

ResolverInit ==
  /\ ServerInit
  /\ signing = NoSigning
  /\ mw = [r \in Reqs |-> IdleMw]
  /\ l2 = L2Deployed
  /\ own = OwnStart([n \in Nodes |-> "0xmultisig"], {})
  /\ lookup = NoLookup
  /\ l1 = L1Deployed("alice", 10, "0xl2resolver", "0xl2registrar")
  /\ reg = Registration("idle", [idx \in SchemaPartners |-> NoPartner], <<>>)
  /\ race = RaceStart
  /\ resolver \in {ResolverDeployed("alice", "url1", newSigners) :
                     newSigners \in {{}, {privateKeyToAccount(GatewayPrivateKey)}}}

(* setGatewayUrl(string newUrl) external onlyOwner                        *)
setGatewayUrl(sender, newUrl) ==
  /\ IF ~onlyOwner(resolver.storage, sender)
       THEN ResolverRevert("setGatewayUrl", sender, newUrl, NotTheOwner)
       ELSE ResolverDone("setGatewayUrl", sender, newUrl, None,
                         [resolver.storage EXCEPT !.gatewayUrl = newUrl],
                         resolver.removed)
  /\ UNCHANGED ResolverUntouched

(* addSigners(address[] signersToAdd) external onlyOwner                  *)
addSigners(sender, signersToAdd) ==
  /\ IF ~onlyOwner(resolver.storage, sender)
       THEN ResolverRevert("addSigners", sender, signersToAdd, NotTheOwner)
       ELSE ResolverDone("addSigners", sender, signersToAdd, None,
                         [resolver.storage EXCEPT
                            !.signers = @ \cup {signersToAdd[i] :
                                                  i \in 1..Len(signersToAdd)}],
                         resolver.removed)
  /\ UNCHANGED ResolverUntouched

(* removeSigners(address[] signersToRemove) external onlyOwner            *)
removeSigners(sender, signersToRemove) ==
  LET listed == {signersToRemove[i] : i \in 1..Len(signersToRemove)}
  IN /\ IF ~onlyOwner(resolver.storage, sender)
          THEN ResolverRevert("removeSigners", sender, signersToRemove, NotTheOwner)
          ELSE ResolverDone("removeSigners", sender, signersToRemove, None,
                            [resolver.storage EXCEPT !.signers = @ \ listed],
                            resolver.removed
                              \cup (listed \cap resolver.storage.signers))
     /\ UNCHANGED ResolverUntouched

(* Ownable.transferOwnership(address newOwner) public onlyOwner           *)
transferOwnership(sender, newOwner) ==
  /\ IF ~onlyOwner(resolver.storage, sender)
       THEN ResolverRevert("transferOwnership", sender, newOwner, NotTheOwner)
       ELSE ResolverDone("transferOwnership", sender, newOwner, None,
                         [resolver.storage EXCEPT !.contractOwner = newOwner],
                         resolver.removed)
  /\ UNCHANGED ResolverUntouched

(* resolveWithProof, returning the result whoever signed the response.    *)
resolveWithProofUnchecked(sender, response) ==
  /\ ResolverDone("resolveWithProof", sender, response, verify(response).result,
                  resolver.storage, resolver.removed)
  /\ UNCHANGED ResolverUntouched

(* resolveWithProof(bytes response, bytes extraData) external view        *)
resolveWithProof(sender, response) ==
  LET signer == verify(response).signer
      result == verify(response).result
  IN /\ IF ~isSigner(resolver.storage, signer)
          THEN ResolverRevert("resolveWithProof", sender, response,
                              "SignatureVerifier: Invalid sigature")
          ELSE ResolverDone("resolveWithProof", sender, response, result,
                            resolver.storage, resolver.removed)
     /\ UNCHANGED ResolverUntouched

ResolverNext ==
  \E sender \in Accounts :
    \/ \E newUrl \in Urls : setGatewayUrl(sender, newUrl)
    \/ \E signersToAdd \in SignerLists : addSigners(sender, signersToAdd)
    \/ \E signersToRemove \in SignerLists : removeSigners(sender, signersToRemove)
    \/ \E newOwner \in Accounts : transferOwnership(sender, newOwner)
    \/ \E response \in ProofResponses : resolveWithProof(sender, response)

ResolverSpec == ResolverInit /\ [][ResolverNext]_vars

(* ---------------------------------------------------------- L1Resolver *)
(* Transactions and calls on a deployed L1Resolver.                       *)
L1Revert(fn, sender, arg, error) ==
  l1' = [l1 EXCEPT !.last = Tx(fn, sender, None, arg, error, None, l1.storage)]

L1Done(fn, sender, arg, storage) ==
  l1' = [storage |-> storage,
         last |-> Tx(fn, sender, None, arg, <<>>, None, l1.storage)]

L1Untouched ==
  <<handlers, phase, db, req, task, added, signing, mw, l2, resolver, own,
    lookup, reg, race>>

(* register(name, owner, duration, secret, resolver, data, reverseRecord, *)
(* fuses, extraData) external payable                                     *)
L1register(sender, arg) ==
  /\ L1Revert("register", sender, arg,
              _offChainStorage(l1.storage, l1.storage.targets["TARGET_REGISTRAR"]))
  /\ UNCHANGED L1Untouched

(* multicall(bytes[] calldata) external view                              *)
L1multicall(sender, arg) ==
  /\ L1Revert("multicall", sender, arg,
              _offChainStorage(l1.storage, l1.storage.targets["TARGET_RESOLVER"]))
  /\ UNCHANGED L1Untouched

(* setAddr(bytes32, address) external view                                *)
L1setAddr(sender, arg) ==
  /\ L1Revert("setAddr", sender, arg,
              _offChainStorage(l1.storage, l1.storage.targets["TARGET_RESOLVER"]))
  /\ UNCHANGED L1Untouched

(* setAddr(bytes32, uint256 coinType, bytes) public view                  *)
L1setAddrCoinType(sender, arg) ==
  /\ L1Revert("setAddrCoinType", sender, arg,
              _offChainStorage(l1.storage, l1.storage.targets["TARGET_RESOLVER"]))
  /\ UNCHANGED L1Untouched

(* setText(bytes32, string key, string value) external view               *)
L1setText(sender, arg) ==
  /\ L1Revert("setText", sender, arg,
              _offChainStorage(l1.storage, l1.storage.targets["TARGET_RESOLVER"]))
  /\ UNCHANGED L1Untouched

(* setContenthash(bytes32, bytes) external view                           *)
L1setContenthash(sender, arg) ==
  /\ L1Revert("setContenthash", sender, arg,
              _offChainStorage(l1.storage, l1.storage.targets["TARGET_RESOLVER"]))
  /\ UNCHANGED L1Untouched

(* setTarget(bytes32 key, address target) public onlyOwner                *)
setTarget(sender, key, target) ==
  /\ IF ~onlyOwner(l1.storage, sender)
       THEN L1Revert("setTarget", sender, <<key, target>>, <<NotTheOwner>>)
       ELSE L1Done("setTarget", sender, <<key, target>>,
                   [l1.storage EXCEPT !.targets[key] = target])
  /\ UNCHANGED L1Untouched

(* setMetadataUrl(string newUrl) external override onlyOwner              *)
setMetadataUrl(sender, newUrl) ==
  /\ IF ~onlyOwner(l1.storage, sender)
       THEN L1Revert("setMetadataUrl", sender, <<newUrl>>, <<NotTheOwner>>)
       ELSE L1Done("setMetadataUrl", sender, <<newUrl>>,
                   [l1.storage EXCEPT !.metadataUrl = newUrl])
  /\ UNCHANGED L1Untouched

(* Ownable.transferOwnership(address newOwner) public onlyOwner           *)
L1transferOwnership(sender, newOwner) ==
  /\ IF ~onlyOwner(l1.storage, sender)
       THEN L1Revert("transferOwnership", sender, <<newOwner>>, <<NotTheOwner>>)
       ELSE L1Done("transferOwnership", sender, <<newOwner>>,
                   [l1.storage EXCEPT !.contractOwner = newOwner])
  /\ UNCHANGED L1Untouched

(* The arguments of the write entry points: a node and a value.           *)
L1Args == {<<n, v>> : n \in Nodes, v \in {"v1"}}

L1Next ==
  \E sender \in Accounts :
    \/ \E arg \in L1Args :
         \/ L1register(sender, arg)
         \/ L1multicall(sender, arg)
         \/ L1setAddr(sender, arg)
         \/ L1setAddrCoinType(sender, arg)
         \/ L1setText(sender, arg)
         \/ L1setContenthash(sender, arg)
    \/ \E key \in TargetKeys, target \in Targets : setTarget(sender, key, target)
    \/ \E newUrl \in Urls : setMetadataUrl(sender, newUrl)
    \/ \E newOwner \in Accounts : L1transferOwnership(sender, newOwner)

L1Spec == Init /\ [][L1Next]_vars

(* ------------------------------------------------- domain registration *)
RegUntouched ==
  <<handlers, phase, db, req, task, added, signing, mw, l2, resolver, own,
    lookup, l1, race>>

(* The records repo.register may answer with: any partners the schema     *)
(* allows.                                                                *)
RegisterInit ==
  /\ ServerInit
  /\ signing = NoSigning
  /\ mw = [r \in Reqs |-> IdleMw]
  /\ l2 = L2Deployed
  /\ resolver = ResolverDeployed("alice", "url1", {})
  /\ own = OwnStart([n \in Nodes |-> "0xmultisig"], {})
  /\ lookup = NoLookup
  /\ l1 = L1Deployed("alice", 10, "0xl2resolver", "0xl2registrar")
  /\ race = RaceStart
  /\ reg \in {Registration("register", returnObj, <<>>) :
                returnObj \in [SchemaPartners -> Partners]}

(* withRegisterDomain after `await repo.register(...)`: the callback data *)
(* [name, nodeHash, constitutionHash, userBytes], or the catch when the   *)
(* repository threw.                                                      *)
withRegisterDomain ==
  /\ reg.pc = "register"
  /\ \E ok \in BOOLEAN :
       reg' = [reg EXCEPT
                 !.pc = "done",
                 !.result =
                   IF ok
                     THEN <<HandlerResponse(TRUE,
                              <<"name", "n1", NewRecord("n1").constitutionHash,
                                userBytes(reg.returnObj)>>,
                              TTL100Days, NoError)>>
                     ELSE <<ReturnedError("Unable to register new domain", 400)>>]
  /\ UNCHANGED RegUntouched

RegisterSpec == RegisterInit /\ [][withRegisterDomain]_vars

(* ------------------------------------------------- concurrent requests *)
(* Authorised setText requests on n1 served concurrently: each await of   *)
(* repo.setText and of withSigner is a point where the other request may  *)
(* run.  Every query answers.                                             *)
RaceUntouched ==
  <<handlers, phase, db, req, task, added, signing, mw, l2, resolver, own,
    lookup, l1, reg>>

RaceStep(x, writer) == [race EXCEPT !.w[x] = writer]

(* withSetText called, the owner verified: repo.setText sends its         *)
(* fetchAndPrepareRecord query.                                           *)
raceSetText(x, key, value) ==
  /\ race.w[x].pc = "idle"
  /\ race' = RaceStep(x, [IdleWriter EXCEPT !.pc = "fetch", !.key = key,
                                            !.value = value])
  /\ UNCHANGED RaceUntouched

(* repo.setText: the record answered; the fingerprint with the key set is *)
(* computed and findOneAndUpdate is sent.                                 *)
raceSetTextFetch(x) ==
  LET wr == race.w[x]
  IN /\ wr.pc = "fetch"
     /\ race' = RaceStep(x, [wr EXCEPT
                               !.pc = "update",
                               !.constitutionHash =
                                 setTextHash(race.db["n1"], wr.key, wr.value)])
     /\ UNCHANGED RaceUntouched

(* repo.setText: findOneAndUpdate({nodeHash}, {[key]: value,              *)
(* constitutionHash}) applied; the handler returns, the response reaches  *)
(* res.json and withSigner sends its fetchAndPrepareRecord query.         *)
raceSetTextUpdate(x) ==
  LET wr == race.w[x]
  IN /\ wr.pc = "update"
     /\ race' = [race EXCEPT
                   !.db = setTextUpdate(race.db, "n1", wr.key, wr.value,
                                        wr.constitutionHash),
                   !.last[wr.key] = wr.value,
                   !.w[x].pc = "signerFetch"]
     /\ UNCHANGED RaceUntouched

(* withSigner: the record answered; its fingerprint is computed and       *)
(* findOneAndUpdate({nodeHash}, {constitutionHash}) is sent.              *)
raceSignerFetch(x) ==
  LET wr == race.w[x]
  IN /\ wr.pc = "signerFetch"
     /\ race' = RaceStep(x, [wr EXCEPT
                               !.pc = "signerPersist",
                               !.recomputed =
                                 keccak256(fetchAndPrepareRecord(
                                             race.db["n1"].fields))])
     /\ UNCHANGED RaceUntouched

(* withSigner: the update applied; the envelope is signed and sent.       *)
raceSignerPersist(x) ==
  LET wr == race.w[x]
  IN /\ wr.pc = "signerPersist"
     /\ race' = [race EXCEPT
                   !.db["n1"].constitutionHash = wr.recomputed,
                   !.w[x].pc = "done"]
     /\ UNCHANGED RaceUntouched

RaceNext ==
  \E x \in Writers :
    \/ \E key \in WrittenKeys, value \in WrittenValues : raceSetText(x, key, value)
    \/ raceSetTextFetch(x)
    \/ raceSetTextUpdate(x)
    \/ raceSignerFetch(x)
    \/ raceSignerPersist(x)

RaceSpec == Init /\ [][RaceNext]_vars

(* ------------------------------------------------------ domain transfer *)
(* transfer(node, owner) on withTransferDomain, whose validator recovers  *)
(* the signer and asks MongoRepository.verifyOwnership.                   *)
OwnUntouched ==
  <<handlers, phase, db, req, task, added, signing, mw, l2, resolver,
    lookup, l1, reg, race>>

TransferInit ==
  /\ ServerInit
  /\ signing = NoSigning
  /\ mw = [r \in Reqs |-> IdleMw]
  /\ l2 = L2Deployed
  /\ resolver = ResolverDeployed("alice", "url1", {})
  /\ lookup = NoLookup
  /\ l1 = L1Deployed("alice", 10, "0xl2resolver", "0xl2registrar")
  /\ reg = Registration("idle", [idx \in SchemaPartners |-> NoPartner], <<>>)
  /\ race = RaceStart
  /\ own \in {OwnStart(chain, managers) :
                chain \in [Nodes -> ChainOwners], managers \in SUBSET Signers}

OwnStep(c) == own' = [own EXCEPT !.call = c]

(* withTransferDomain's handler called: validator.verifyOwnership starts. *)
withTransferDomain(node, signer) ==
  /\ own.call.pc = "idle"
  /\ OwnStep([NoTransfer EXCEPT !.pc = "recover", !.node = node, !.address = signer])
  /\ UNCHANGED OwnUntouched

(* The handler's catch, letting the exception go.                         *)
transferCatchRethrow(c, err) ==
  [c EXCEPT !.pc = "done", !.threw = err, !.escaped = err]

(* catch (err) { return {error: 'Unable to transfer domain', 400} }       *)
transferCatch(c, err) ==
  [c EXCEPT !.pc = "done", !.threw = err,
             !.result = <<ReturnedError("Unable to transfer domain", 400)>>]

(* The validator recovers the signer of the typed signature, or throws.   *)
validatorRecover ==
  /\ own.call.pc = "recover"
  /\ \E ok \in BOOLEAN :
       IF ~ok THEN OwnStep(transferCatch(own.call, Msg("invalid signature")))
       ELSE OwnStep([own.call EXCEPT !.pc = "getOnChainOwner"])
  /\ UNCHANGED OwnUntouched

(* verifyOwnership's catch, taking the failure for a yes.                 *)
verifyOwnershipCaughtTrue(c) ==
  [c EXCEPT !.pc = "verified", !.verified = TRUE, !.caught = TRUE,
             !.isOwner = TRUE]

(* verifyOwnership: catch (err) {} return false                           *)
verifyOwnershipCaught(c) ==
  [c EXCEPT !.pc = "verified", !.verified = TRUE, !.caught = TRUE,
             !.isOwner = FALSE]

(* verifyOwnership: `await this.getOnChainOwner(client, node)` answered.  *)
verifyOwnershipOwner ==
  /\ own.call.pc = "getOnChainOwner"
  /\ \E ok \in BOOLEAN :
       IF ~ok THEN OwnStep(verifyOwnershipCaught(own.call))
       ELSE LET onchainOwner == own.chain[own.call.node]
            IN OwnStep([own.call EXCEPT
                          !.onchainOwner = onchainOwner,
                          !.pc = IF onchainOwner = own.call.address
                                   THEN "updateOne" ELSE "entityMemberManager"])
  /\ UNCHANGED OwnUntouched

(* verifyOwnership: the upsert of the owner answered; return true.        *)
verifyOwnershipUpsert ==
  /\ own.call.pc = "updateOne"
  /\ \E ok \in BOOLEAN :
       IF ~ok THEN OwnStep(verifyOwnershipCaught(own.call))
       ELSE own' = [own EXCEPT
                      !.stored[own.call.node] = <<own.call.onchainOwner>>,
                      !.call = [own.call EXCEPT !.pc = "verified",
                                                !.verified = TRUE,
                                                !.isOwner = TRUE,
                                                !.calls = @ \cup {"updateOne"}]]
  /\ UNCHANGED OwnUntouched

(* verifyOwnership: entityMemberManager() of the owner answered; an owner *)
(* that is not the multisig contract has no such function.                *)
verifyOwnershipManager ==
  /\ own.call.pc = "entityMemberManager"
  /\ \E ok \in BOOLEAN :
       IF ~ok \/ own.call.onchainOwner # "0xmultisig"
         THEN OwnStep(verifyOwnershipCaught(own.call))
         ELSE OwnStep([own.call EXCEPT !.pc = "userRoleLookup"])
  /\ UNCHANGED OwnUntouched

(* verifyOwnership: userRoleLookup(address, managerRole) answered; return *)
(* isManager.                                                             *)
verifyOwnershipRole ==
  /\ own.call.pc = "userRoleLookup"
  /\ \E ok \in BOOLEAN :
       IF ~ok THEN OwnStep(verifyOwnershipCaught(own.call))
       ELSE OwnStep([own.call EXCEPT
                       !.pc = "verified",
                       !.verified = TRUE,
                       !.isOwner = own.call.address \in own.managers])
  /\ UNCHANGED OwnUntouched

(* withTransferDomain: isOwner is known; 401, or repo.transfer starts.    *)
withTransferDomainVerified ==
  /\ own.call.pc = "verified"
  /\ IF ~own.call.isOwner
       THEN OwnStep([own.call EXCEPT
                       !.pc = "done",
                       !.result = <<ReturnedError("Unauthorized", 401)>>])
       ELSE OwnStep([own.call EXCEPT !.pc = "transfer",
                                     !.calls = @ \cup {"transfer"}])
  /\ UNCHANGED OwnUntouched

(* MongoRepository.transfer: getOnChainOwner answered, or threw.          *)
transferOwner ==
  /\ own.call.pc = "transfer"
  /\ \E ok \in BOOLEAN :
       IF ~ok THEN OwnStep(transferCatch(own.call, Msg("rpc failed")))
       ELSE OwnStep([own.call EXCEPT !.pc = "findOneAndUpdate",
                                     !.onchainOwner = own.chain[own.call.node]])
  /\ UNCHANGED OwnUntouched

(* MongoRepository.transfer: findOneAndUpdate({nodeHash}, {owner:         *)
(* onchainOwner}) answered (no upsert), and the handler returns nothing;  *)
(* or it threw.                                                           *)
transferUpdate ==
  /\ own.call.pc = "findOneAndUpdate"
  /\ \E ok \in BOOLEAN :
       IF ~ok THEN OwnStep(transferCatch(own.call, Msg("connection lost")))
       ELSE own' = [own EXCEPT
                      !.stored[own.call.node] =
                        IF @ = Absent THEN @ ELSE <<own.call.onchainOwner>>,
                      !.call = [own.call EXCEPT !.pc = "done",
                                                !.result = <<ReturnedUndefined>>]]
  /\ UNCHANGED OwnUntouched

(* The call is over.                                                      *)
transferClose ==
  /\ own.call.pc = "done"
  /\ OwnStep(NoTransfer)
  /\ UNCHANGED OwnUntouched

TransferNext ==
  \/ \E node \in Nodes, signer \in Signers : withTransferDomain(node, signer)
  \/ validatorRecover
  \/ verifyOwnershipOwner
  \/ verifyOwnershipUpsert
  \/ verifyOwnershipManager
  \/ verifyOwnershipRole
  \/ withTransferDomainVerified
  \/ transferOwner
  \/ transferUpdate
  \/ transferClose

TransferSpec == TransferInit /\ [][TransferNext]_vars

(* ---------------------------------------------------- repository reads *)
LookupUntouched ==
  <<handlers, phase, req, task, added, signing, mw, l2, resolver, own,
    l1, reg, race>>

(* The stores read: the record of n1 with or without an address and an    *)
(* avatar, and the record of n2 there or not.                             *)
ReadInit ==
  /\ handlers = addMulticallSupport([s \in Selectors |-> NoHandler])
  /\ phase = "serving"
  /\ \E address \in Addrs \cup {Undefined}, avatar \in {"v1", Undefined},
        second \in BOOLEAN :
       db = [n \in Nodes |->
               IF n = "n1"
                 THEN [NewRecord(n) EXCEPT !.fields["address"] = address,
                                          !.fields["avatar"] = avatar]
               ELSE IF second THEN NewRecord(n) ELSE NoRecord]
  /\ req = [r \in Reqs |-> IdleReq]
  /\ task = [r \in Reqs |-> [i \in Slots |-> IdleTask]]
  /\ added = <<>>
  /\ signing = NoSigning
  /\ mw = [r \in Reqs |-> IdleMw]
  /\ ExtInit

(* repo.getAddress({node})                                                *)
repoGetAddress(node) ==
  /\ lookup' = Lookup("getAddress", node, None, db, getAddress(db, node))
  /\ UNCHANGED <<db, LookupUntouched>>

(* repo.getText({node, key})                                              *)
repoGetText(node, key) ==
  /\ lookup' = Lookup("getText", node, key, db, getText(db, node, key))
  /\ UNCHANGED <<db, LookupUntouched>>

(* repo.setAddress({node, address}): findOneAndUpdate({nodeHash: node},   *)
(* {address}), no upsert.                                                 *)
repoSetAddress(node, address) ==
  /\ node \in Nodes
  /\ db' = findOneAndUpdate(db, node, "address", address)
  /\ lookup' = Lookup("setAddress", node, None, db, Undefined)
  /\ UNCHANGED LookupUntouched

ReadNext ==
  \/ \E node \in LookupNodes : repoGetAddress(node)
  \/ \E node \in LookupNodes, key \in Keys : repoGetText(node, key)
  \/ \E node \in LookupNodes, address \in Addrs : repoSetAddress(node, address)

ReadSpec == ReadInit /\ [][ReadNext]_vars

(* ============================================================ properties *)
Registered(selector) == handlers[selector].func # Undefined

ErrorPayload(message) ==
  hexConcat(ErrorSelector, AbiEncode(<<"string">>, <<message>>))

Succeeded(t) == t.pc = "done" /\ t.out.kind = "returned" /\ t.out.status = 200

(* A settled multicall of request r, and the results array it encoded.    *)
MulticallSettled(r) ==
  /\ task[r][0].data.sel = "multicall"
  /\ task[r][0].data.ok
  /\ task[r][0].pc = "done"

MulticallResultsOf(r) == task[r][0].out.body.data[3][1]

(* C1: a call whose selector has no registered handler returns 404 with a *)
(* message naming the selector, at once (no handler is invoked, the call  *)
(* never waits on one), and the step changes neither the handler table    *)
(* nor the store.                                                         *)
C1_NotFound(t) ==
  /\ t.pc = "done"
  /\ t.out = Returned(404, Body(NoImplementation(t.data.sel), Absent, Undefined))

C1_UnregisteredSelector ==
  [][\A r \in Reqs, i \in Slots :
       (task'[r][i].pc # "idle" /\ ~Registered(task'[r][i].data.sel))
         => /\ C1_NotFound(task'[r][i])
            /\ task[r][i].pc = "idle" => (handlers' = handlers /\ db' = db)]_vars

C1_Witness ==
  \E r \in Reqs, i \in Slots :
    /\ task[r][i].pc = "done"
    /\ ~Registered(task[r][i].data.sel)
    /\ task[r][i].out.status = 404
    /\ i > 0

(* C2: a settled multicall over n inner calls returns n results, and slot *)
(* i is the outcome of the dispatch of input i (its data when it returned *)
(* 200, an Error(string) payload otherwise), in whatever order the inner  *)
(* dispatches settled.                                                    *)
C2_SlotIs(slot, t) ==
  /\ t.pc = "done"
  /\ IF t.out.kind = "returned" /\ t.out.status = 200
       THEN slot = t.out.body.data
       ELSE Len(slot) = 3 /\ slot[1] = "concat" /\ slot[2] = ErrorSelector
  /\ ~Registered(t.data.sel) => slot = ErrorPayload(NoImplementation(t.data.sel))
  /\ (Registered(t.data.sel) /\ ~t.data.ok)
       => slot = ErrorPayload(StringOfError(Msg("data out-of-bounds")))

C2_MulticallOrder ==
  \A r \in Reqs :
    MulticallSettled(r) =>
      LET n == Len(task[r][0].data.inner)
          encoded == task[r][0].out.body.data
      IN /\ task[r][0].out.kind = "returned"
         /\ Len(encoded) = 3 /\ encoded[1] = "abi" /\ encoded[2] = <<"bytes[]">>
         /\ Len(MulticallResultsOf(r)) = n
         /\ \A i \in 1..n :
              /\ task[r][i].data = task[r][0].data.inner[i]
              /\ C2_SlotIs(MulticallResultsOf(r)[i], task[r][i])

C2_Witness ==
  \E r \in Reqs :
    /\ MulticallSettled(r)
    /\ Len(task[r][0].data.inner) = 2
    /\ task[r][1].data.sel = "text" /\ Succeeded(task[r][1])
    /\ task[r][2].data.sel = UnknownSelector
    /\ MulticallResultsOf(r)[1] = EmptyBytes
    /\ MulticallResultsOf(r)[2] = ErrorPayload(NoImplementation(UnknownSelector))

(* C3: a multicall never fails because an inner call failed: it returns   *)
(* status 200 whichever inner calls returned a non-200 status or threw,   *)
(* the slot of every inner call that returned 200 holds that call's data, *)
(* and what a successful inner setAddr wrote is in the store.             *)
C3_MulticallIsolation ==
  \A r \in Reqs :
    MulticallSettled(r) =>
      /\ task[r][0].out.kind = "returned"
      /\ task[r][0].out.status = 200
      /\ \A i \in 1..Len(task[r][0].data.inner) :
           Succeeded(task[r][i]) =>
             /\ MulticallResultsOf(r)[i] = task[r][i].out.body.data
             /\ (task[r][i].data.sel = "setAddr" /\ db[task[r][i].data.node].exists)
                  => db[task[r][i].data.node].fields["address"] = task[r][i].data.value

C3_Witness ==
  \E r \in Reqs :
    /\ MulticallSettled(r)
    /\ task[r][0].out.status = 200
    /\ task[r][1].pc = "done" /\ task[r][1].out.kind = "threw"
    /\ task[r][2].data.sel = "setAddr" /\ Succeeded(task[r][2])
    /\ task[r][2].data.node = "n1"
    /\ db["n1"].fields["address"] = task[r][2].data.value

(* The handler of a settled call resolved with an explicit error.         *)
DeclaredError(t) ==
  /\ t.pc = "done"
  /\ t.result # <<>>
  /\ t.result[1].defined
  /\ t.result[1].error # NoError

(* The failure message of a settled call that did not return 200: the     *)
(* text of what it threw, the message its handler declared, or the        *)
(* message of the response (no handler ran).                              *)
FailureMessage(t) ==
  IF t.out.kind = "threw" THEN StringOfError(t.out.err)
  ELSE IF DeclaredError(t) THEN t.result[1].error.message
  ELSE t.out.body.message

(* C4: in a settled multicall the slot of every inner call that failed    *)
(* (unregistered selector, error declared by the handler, exception) is   *)
(* the Error(string) selector followed by the ABI encoding of that inner  *)
(* call's own failure message.                                            *)
C4_FailingSlotCarriesMessage ==
  \A r \in Reqs :
    MulticallSettled(r) =>
      \A i \in 1..Len(task[r][0].data.inner) :
        ~Succeeded(task[r][i]) =>
          MulticallResultsOf(r)[i] = ErrorPayload(FailureMessage(task[r][i]))

(* C5: a call whose handler resolved with an explicit error               *)
(* {message, status} returns the declared status and the body             *)
(* {message: <the declared message>}.                                     *)
C5_DeclaredErrorPropagated ==
  \A r \in Reqs, i \in Slots :
    DeclaredError(task[r][i]) =>
      task[r][i].out =
        Returned(task[r][i].result[1].error.status,
                 Body(task[r][i].result[1].error.message, Absent, Undefined))

(* The business function of a settled call was invoked and its promise    *)
(* rejected: the call is over and no result was ever assigned.            *)
HandlerThrew(t) ==
  /\ t.pc = "done"
  /\ Registered(t.data.sel)
  /\ t.data.ok
  /\ t.result = <<>>

Is400Class(status) == status >= 400 /\ status <= 499

InternalServerErrorResponse(err) ==
  HttpResponse(500, Body(InternalServerError(StringOfError(err)), Absent, Undefined))

(* C6 as stated: when the business function of a registered handler       *)
(* throws or rejects, the call returns a 400-class response carrying the  *)
(* error message, and the HTTP caller never sees a 500.                   *)
C6_HandlerThrowIs400 ==
  \A r \in Reqs :
    /\ \A i \in Slots :
         HandlerThrew(task[r][i]) =>
           /\ task[r][i].out.kind = "returned"
           /\ Is400Class(task[r][i].out.status)
    /\ (req[r].st = "done" /\ HandlerThrew(task[r][0])) =>
         \A k \in 1..Len(req[r].res) : Is400Class(req[r].res[k].status)

(* C6 as amended: when the business function of a registered handler      *)
(* throws or rejects, Server.call does not catch it: the call rejects     *)
(* with the handler's error.  handleRequest catches the rejection and     *)
(* answers once, with status 500 and the message 'Internal server error:  *)
(* <error>'; a multicall catches the rejection of an inner call, puts the *)
(* error as Error(string) payload in its slot and returns 200.            *)
C6_HandlerThrowIs500 ==
  \A r \in Reqs :
    /\ \A i \in Slots :
         HandlerThrew(task[r][i]) =>
           task[r][i].out =
             Threw(HandlerFailure(handlers[task[r][i].data.sel].func))
    /\ (req[r].st = "done" /\ HandlerThrew(task[r][0])) =>
         req[r].res = <<InternalServerErrorResponse(task[r][0].out.err)>>
    /\ MulticallSettled(r) =>
         /\ task[r][0].out.status = 200
         /\ \A i \in 1..Len(task[r][0].data.inner) :
              HandlerThrew(task[r][i]) =>
                MulticallResultsOf(r)[i] =
                  ErrorPayload(StringOfError(task[r][i].out.err))

C6_Witness ==
  \E r \in Reqs :
    /\ req[r].st = "done"
    /\ HandlerThrew(task[r][0])
    /\ task[r][0].data.sel = "text"
    /\ task[r][0].out.kind = "threw"
    /\ req[r].res[1].status = 500

(* A call was made with a registered selector and bytes after it that do  *)
(* not decode with the handler's input types.                             *)
DecodeFailed(t) ==
  /\ t.pc # "idle"
  /\ Registered(t.data.sel)
  /\ ~t.data.ok

(* The business function of the call was never invoked: the call went     *)
(* from not started to over, and no result was assigned.                  *)
NeverInvoked(before, after) ==
  /\ before.pc \in {"idle", "done"}
  /\ after.pc = "done"
  /\ after.result = <<>>

(* C7 as stated: when the bytes after a registered selector do not        *)
(* decode, the business function is not invoked, the store is not         *)
(* written, and the call is answered with a 400-class error.              *)
C7_DecodeFailureIs400 ==
  [][\A r \in Reqs, i \in Slots :
       DecodeFailed(task'[r][i]) =>
         /\ NeverInvoked(task[r][i], task'[r][i])
         /\ task[r][i].pc = "idle" => db' = db
         /\ task'[r][i].out.kind = "returned"
         /\ Is400Class(task'[r][i].out.status)]_vars

(* C7 as amended: when the bytes after a registered selector do not       *)
(* decode, the business function is not invoked and the step writes       *)
(* nothing to the store; Server.call returns no response but rejects with *)
(* the decoder's error, which handleRequest answers with status 500       *)
(* ('Internal server error: <error>') and a multicall turns into the      *)
(* Error(string) payload of the slot.                                     *)
C7_DecodeFailureRejects ==
  [][\A r \in Reqs, i \in Slots :
       DecodeFailed(task'[r][i]) =>
         /\ NeverInvoked(task[r][i], task'[r][i])
         /\ task[r][i].pc = "idle" => db' = db
         /\ task'[r][i].out = Threw(Msg("data out-of-bounds"))
         /\ (i = 0 /\ req'[r].st = "done") =>
              req'[r].res =
                <<InternalServerErrorResponse(Msg("data out-of-bounds"))>>
         /\ (i > 0 /\ task'[r][0].pc = "done") =>
              MulticallResultsOf(r)'[i] =
                ErrorPayload(StringOfError(Msg("data out-of-bounds")))]_vars

C7_Witness ==
  \E r \in Reqs :
    /\ req[r].st = "done"
    /\ DecodeFailed(task[r][0])
    /\ task[r][0].data.sel = "setAddr"
    /\ task[r][0].out.kind = "threw"
    /\ req[r].res[1].status = 500
    /\ db["n1"].fields["address"] = Undefined

(* The handler of a settled call resolved without declaring an error.     *)
HandlerSucceeded(t) ==
  /\ t.pc = "done"
  /\ t.result # <<>>
  /\ ~DeclaredError(t)

(* The function declares no outputs, or the handler returned nothing, no  *)
(* data, or an empty data list.                                           *)
NoValue(t) ==
  \/ Len(handlers[t.data.sel].type.outputs) = 0
  \/ ~t.result[1].defined
  \/ ~t.result[1].hasData
  \/ Len(t.result[1].data) = 0

(* C8: on a successful handler run, if the function's ABI declares no     *)
(* outputs, or the handler returned nothing, no data or an empty data     *)
(* list, the call returns status 200 with data '0x' -- also when the ABI  *)
(* declares no outputs and the handler returned a non-empty data list.    *)
C8_NoValueIsEmptyBytes ==
  \A r \in Reqs, i \in Slots :
    (HandlerSucceeded(task[r][i]) /\ NoValue(task[r][i])) =>
      /\ task[r][i].out.kind = "returned"
      /\ task[r][i].out.status = 200
      /\ task[r][i].out.body.data = EmptyBytes

(* The HTTP request r was received with a sender that is no address or    *)
(* with calldata that is no byte string.                                  *)
MalformedRequest(q) ==
  /\ q.st \in {"http", "done"}
  /\ \/ q.sender = "not-an-address"
     \/ q.callData = NotBytes

(* C9: an HTTP request whose sender is not a well-formed address or whose *)
(* calldata is not well-formed byte data is answered at once with status  *)
(* 400 ('Invalid request format'); Server.call is never invoked for it:   *)
(* no call of the request is started, and the step leaves the store and   *)
(* the handler table as they were.                                        *)
C9_MalformedRequestIs400 ==
  [][\A r \in Reqs :
       MalformedRequest(req'[r]) =>
         /\ req'[r].st = "done"
         /\ req'[r].res =
              <<HttpResponse(400, Body(Msg("Invalid request format"),
                                       Absent, Undefined))>>
         /\ \A i \in Slots : task'[r][i] = IdleTask
         /\ db' = db
         /\ handlers' = handlers]_vars

C9_Witness ==
  \E r \in Reqs :
    /\ req[r].st = "done"
    /\ req[r].sender = "not-an-address"
    /\ req[r].callData.sel = "setAddr"
    /\ req[r].callData.ok
    /\ req[r].res[1].status = 400
    /\ task[r][0].pc = "idle"
    /\ db[req[r].callData.node].fields["address"] = Undefined

(* C10: a setAddr call that the owner of the node did not authorise (it   *)
(* carries a signature that is not the owner's) is answered with status   *)
(* 401, and the address stored for the node is the same before and after  *)
(* the call.                                                              *)
C10_UnauthorisedSetAddrIs401 ==
  [][\A r \in Reqs, i \in Slots :
       (/\ task[r][i].pc = "setAddr"
        /\ task'[r][i].pc = "done"
        /\ task'[r][i].result # <<>>
        /\ task[r][i].signature \in Signatures
        /\ ~verifyOwnership(task[r][i].data.node, task[r][i].signature))
         => /\ task'[r][i].out.kind = "returned"
            /\ task'[r][i].out.status = 401
            /\ db'[task[r][i].data.node].fields["address"]
                 = db[task[r][i].data.node].fields["address"]]_vars

(* The texts of the store: the value under every text key of every node.  *)
Texts(store) == [n \in Nodes |-> [k \in Keys |-> store[n].fields[k]]]

(* C11: a setText call handled by withSetText for which verifyOwnership   *)
(* is false resolves with the error 'Unauthorized' and is answered with   *)
(* status 401; it goes from the ownership check straight to its answer,   *)
(* so repo.setText is never called for it, and its steps leave every      *)
(* stored text of every node as it was.                                   *)
C11_UnauthorisedSetText ==
  [][\A r \in Reqs, i \in Slots :
       (/\ task'[r][i].data.sel = "setText"
        /\ task'[r][i].data.ok
        /\ task'[r][i].pc # "idle"
        /\ handlers[task'[r][i].data.sel].func = "withSetText"
        /\ ~verifyOwnership(task'[r][i].data.node, task'[r][i].signature))
         => /\ task'[r][i].pc \in {"verifyOwnership", "done"}
            /\ task'[r][i].pc = "done" =>
                 /\ task'[r][i].result = <<ReturnedError("Unauthorized", 401)>>
                 /\ task'[r][i].out.kind = "returned"
                 /\ task'[r][i].out.status = 401
                 /\ Msg("Unauthorized") \in
                      {task'[r][i].out.body.message, task'[r][i].out.body.data}
            /\ task'[r][i] # task[r][i] => Texts(db') = Texts(db)]_vars

C11_Witness ==
  \E r \in Reqs :
    /\ task[r][0].data.sel = "setText"
    /\ task[r][0].signature = "stranger"
    /\ task[r][0].data.key = "avatar"
    /\ task[r][0].pc = "done"
    /\ task[r][0].out.status = 401
    /\ db["n1"].fields["avatar"] = "v1"
    /\ task[r][0].data.value = "v2"

(* The step in which withSetText's repo.setText wrote for slot i of r.    *)
SetTextWrote(r, i) ==
  /\ task[r][i].pc = "update"
  /\ handlers[task[r][i].data.sel].func = "withSetText"
  /\ task'[r][i].pc = "done"
  /\ HandlerSucceeded(task'[r][i])

(* The step in which withGetText's repo.getText answered for slot i of r. *)
GetTextAnswered(r, i) ==
  /\ task[r][i].pc = "getText"
  /\ handlers[task[r][i].data.sel].func = "withGetText"
  /\ task'[r][i].pc = "done"
  /\ task'[r][i].result # <<>>

(* C12: an authorised setText(node, key, value) that succeeds stores the  *)
(* value under the key of the node, replacing what was there, and leaves  *)
(* the texts under other keys and of other nodes unchanged; a text(node,  *)
(* key) answered while that value is stored returns status 200 with the   *)
(* encoded value.                                                         *)
C12_SetTextThenText ==
  [][\A r \in Reqs, i \in Slots :
       LET t == task[r][i]
       IN /\ SetTextWrote(r, i) =>
               /\ db'[t.data.node].fields[t.data.key] = t.data.value
               /\ \A n \in Nodes, k \in Keys :
                    <<n, k>> # <<t.data.node, t.data.key>>
                      => db'[n].fields[k] = db[n].fields[k]
          /\ (/\ GetTextAnswered(r, i)
              /\ t.data.node \in Nodes
              /\ db[t.data.node].exists
              /\ db[t.data.node].fields[t.data.key] # Undefined)
               => /\ task'[r][i].out.kind = "returned"
                  /\ task'[r][i].out.status = 200
                  /\ task'[r][i].out.body.data =
                       AbiEncode(<<"string">>,
                                 <<db[t.data.node].fields[t.data.key]>>)]_vars

(* No record is stored for the node, under its nodeHash or its LEIHash,   *)
(* or the record has no value under the key.                              *)
NoStoredText(node, key) ==
  \A n \in Nodes :
    (db[n].exists /\ node \in {n, LEIHashOf(n)})
      => db[n].fields[key] = Undefined

(* C13: text(node, key) answered for a node with no stored record, or     *)
(* with no value under the key, returns status 200 with the empty data    *)
(* '0x' and no error, and the step neither creates nor modifies a record. *)
C13_MissingTextIsEmpty ==
  [][\A r \in Reqs, i \in Slots :
       (/\ GetTextAnswered(r, i)
        /\ NoStoredText(task[r][i].data.node, task[r][i].data.key))
         => /\ task'[r][i].out = Returned(200, Body(Absent, EmptyBytes, Undefined))
            /\ db' = db]_vars

C13_Witness ==
  \E r \in Reqs :
    /\ task[r][0].data.sel = "text"
    /\ task[r][0].data.node = "n2"
    /\ ~db["n2"].exists
    /\ task[r][0].pc = "done"
    /\ task[r][0].result = <<ReturnedUndefined>>
    /\ task[r][0].out.status = 200
    /\ task[r][0].out.body.data = EmptyBytes

(* Every handler description registered so far, in registration order:    *)
(* the constructor's multicall first, then the lists of each add.         *)
RECURSIVE Concat(_)
Concat(lists) ==
  IF lists = <<>> THEN <<>> ELSE Head(lists) \o Concat(Tail(lists))

RegisteredSoFar == <<HandlerDescription("multicall", "multicall")>> \o Concat(added)

LastRegistered(selector) ==
  LET all == RegisteredSoFar
      at == {i \in 1..Len(all) : all[i].type = selector}
  IN IF at = {} THEN NoHandler
     ELSE LET last == CHOOSE i \in at : \A j \in at : j <= i
          IN [type |-> getFunction(selector), func |-> all[last].func]

(* C17: after any sequence of Server.add calls, every selector maps to    *)
(* one handler, the one of the last registration for that selector (none  *)
(* if it was never registered); multicall is registered by the            *)
(* constructor and a later add of multicall replaces it.                  *)
C17_LastAddWins ==
  /\ \A s \in Selectors : handlers[s] = LastRegistered(s)
  /\ added = <<>> => handlers["multicall"].func = "multicall"

C17_Witness ==
  /\ Len(added) = 2
  /\ added[1] = <<HandlerDescription("text", "library"),
                  HandlerDescription("multicall", "withGetText")>>
  /\ added[2] = <<HandlerDescription("text", "withGetText"),
                  HandlerDescription("multicall", "library")>>
  /\ handlers["text"].func = "withGetText"
  /\ handlers["multicall"].func = "library"

(* C18: no step of a dispatch (a call starting, a handler resolving or    *)
(* rejecting, a multicall gathering its inner calls, a response being     *)
(* sent, a request ending), whatever its outcome, changes the handler     *)
(* table; the table changes only in a Server.add step.                    *)
C18_DispatchKeepsHandlers ==
  [][/\ (task' # task \/ req' # req \/ db' # db) => handlers' = handlers
     /\ handlers' # handlers =>
          /\ phase = "setup"
          /\ \E hs \in HandlerLists : handlers' = add(handlers, hs)]_vars

C18_Witness ==
  \E r \in Reqs, i \in 1..MaxBatch, j \in 1..MaxBatch :
    /\ task[r][0].data.sel = "multicall"
    /\ task[r][0].pc = "done"
    /\ task[r][0].out.kind = "returned"
    /\ task[r][i].out.status = 404
    /\ task[r][j].out.kind = "threw"
    /\ handlers = add(addMulticallSupport([s \in Selectors |-> NoHandler]),
                      GatewayHandlers)

(* C19: every HTTP request handled by handleRequest gets exactly one      *)
(* response: none while its dispatch is pending, and once handleRequest   *)
(* is over exactly one, which is 400 for malformed input, otherwise the   *)
(* dispatch result with the HTTP status equal to RPCResponse.status,      *)
(* otherwise 500 if the dispatch threw.  A request whose dispatch has     *)
(* settled is never stuck: its response can be sent.                      *)
C19_ExactlyOneResponse ==
  \A r \in Reqs :
    /\ req[r].st = "http" =>
         /\ req[r].res = <<>>
         /\ task[r][0].pc = "done" => ENABLED Respond(r)
    /\ req[r].st = "done" =>
         /\ Len(req[r].res) = 1
         /\ IF req[r].sender = "not-an-address" \/ req[r].callData = NotBytes
              THEN /\ req[r].res[1].status = 400
                   /\ task[r][0].pc = "idle"
            ELSE IF task[r][0].out.kind = "returned"
              THEN /\ req[r].res[1].status = task[r][0].out.status
                   /\ req[r].res[1].body = task[r][0].out.body
            ELSE /\ task[r][0].out.kind = "threw"
                 /\ req[r].res[1].status = 500

C19_Witness ==
  \E r \in Reqs :
    /\ req[r].st = "done"
    /\ req[r].callData.sel = "setAddr"
    /\ task[r][0].out.kind = "threw"
    /\ Len(req[r].res) = 1
    /\ req[r].res[1].status = 500

(* Two signing requests agree on sender (as an address), ttl, calldata    *)
(* and response data.                                                     *)
SameFour(a, b) ==
  /\ toLowerCase(a.sender) = toLowerCase(b.sender)
  /\ a.ttl = b.ttl
  /\ a.calldata = b.calldata
  /\ a.response = b.response

(* C15: the signing digest is a function of exactly (sender, ttl,         *)
(* calldata, response data): two requests that agree on the four get the  *)
(* same digest and, signed with the same private key, the same signature  *)
(* and signer identity; two requests that differ in one of the four get   *)
(* different digests (keccak256 being injective).                         *)
C15_DigestDetermined ==
  signing.out # <<>> =>
    LET a == signing.in[1]
        b == signing.in[2]
        x == signing.out[1]
        y == signing.out[2]
    IN /\ SameFour(a, b) <=> x.msgHash = y.msgHash
       /\ (SameFour(a, b) /\ a.privateKey = b.privateKey)
            => x.sig = y.sig /\ x.signer = y.signer

C15_Witness ==
  /\ signing.out # <<>>
  /\ signing.in[1].sender = signing.in[2].sender
  /\ signing.in[1].ttl = signing.in[2].ttl
  /\ signing.in[1].privateKey = signing.in[2].privateKey
  /\ signing.in[1].calldata \o signing.in[1].response
       = signing.in[2].calldata \o signing.in[2].response
  /\ signing.in[1].calldata # signing.in[2].calldata
  /\ signing.out[1].msgHash # signing.out[2].msgHash

(* What handleRequest handed to res.json for request r.                   *)
Handed(r) == req[r].res[1]

(* C14: the signing middleware fails closed.  When a step of withSigner   *)
(* (fetching the record, persisting the fingerprint, signing) throws, the *)
(* client receives status 500 with the error's message and no data; and   *)
(* no response leaves the middleware with a success status and data but   *)
(* without a signature.                                                   *)
C14_FailsClosed ==
  \A r \in Reqs :
    mw[r].sent # <<>> =>
      LET s == mw[r].sent[1]
      IN /\ mw[r].threw # Absent =>
              /\ s.status = 500
              /\ s.message = mw[r].threw
              /\ s.data = Absent
              /\ s.sig = Absent
         /\ (s.status < 400 /\ s.data # Absent /\ s.data # EmptyBytes)
              => s.sig # Absent

C14_Witness ==
  \E r \in Reqs :
    /\ mw[r].pc = "sent"
    /\ req[r].callData.sel = "text"
    /\ Handed(r).status = 200
    /\ Handed(r).body.data = AbiEncode(<<"string">>, <<"v2">>)
    /\ mw[r].threw = Msg("Record not found")
    /\ mw[r].sent[1].status = 500
    /\ mw[r].sent[1].data = Absent

(* C16: the response to a read call (text) that the dispatch engine       *)
(* answered with status 200 goes through the signing middleware without   *)
(* the middleware touching the store, and leaves it with status 200 and   *)
(* the data the dispatch engine produced.                                 *)
C16_ReadsPassThrough ==
  \A r \in Reqs :
    (/\ req[r].st = "done"
     /\ req[r].callData.sel = "text"
     /\ Handed(r).status = 200
     /\ mw[r].pc = "sent")
      => /\ mw[r].nodeHash = None
         /\ mw[r].sent[1].status = 200
         /\ mw[r].sent[1].data = Handed(r).body.data

(* The nodes whose record a tracked call writes.                          *)
AffectedNodes(callData) ==
  IF callData.sel = "setText" THEN {callData.node}
  ELSE {callData.inner[i].node :
          i \in {j \in 1..Len(callData.inner) : callData.inner[j].sel = "setText"}}

HasSetTextCall(callData) ==
  \E i \in 1..Len(callData.inner) : callData.inner[i].sel = "setText"

(* The node of the last setText entry of a batch.                         *)
LastSetTextNode(callData) ==
  LET at == {i \in 1..Len(callData.inner) : callData.inner[i].sel = "setText"}
  IN callData.inner[CHOOSE i \in at : \A j \in at : j <= i].node

(* A multicall request that contains a setText, every setText of which    *)
(* was saved, and whose result handleRequest handed to res.json.          *)
SetTextBatchHanded(r) ==
  /\ req[r].st = "done"
  /\ req[r].callData.sel = "multicall"
  /\ HasSetTextCall(req[r].callData)
  /\ Handed(r).status = 200
  /\ \A i \in 1..Len(req[r].callData.inner) :
       req[r].callData.inner[i].sel = "setText" => HandlerSucceeded(task[r][i])

(* C21: for a multicall-wrapped request that contains a setText call, the *)
(* middleware takes the record identity from the last setText entry,      *)
(* wherever that entry stands in the batch, and (unless the store or the  *)
(* signing fails) the request is answered with a signed                   *)
(* node || fingerprint payload.                                           *)
C21_IdentityFromLastSetText ==
  \A r \in Reqs :
    (SetTextBatchHanded(r) /\ mw[r].pc # "idle")
      => /\ mw[r].nodeHash = LastSetTextNode(req[r].callData)
         /\ (mw[r].pc = "sent"
               /\ mw[r].threw \notin {Msg("connection lost"), Msg("signing failed")})
              => /\ mw[r].sent[1].status = 200
                 /\ mw[r].sent[1].sig # Absent
                 /\ mw[r].sent[1].data =
                      NodeAndFingerprint(LastSetTextNode(req[r].callData),
                                         mw[r].constitutionHash)

(* ------------------------------------------------------------ contracts *)
(* The last transaction on the L2Resolver was sent to `fn`.               *)
L2Called(fn) == l2.last.fn = fn

L2Reverted == l2.last.reverted # None

L2StorageKept == l2.storage = l2.last.before

(* C22: register(node) creates the domain when it is available: on a node *)
(* that has no owner it succeeds, whoever calls it, and makes the caller  *)
(* the owner; on a node owned by another account it reverts with          *)
(* L2Resolver__UnavailableDomain and the owner stays.                     *)
C22_RegisterWhenAvailable ==
  L2Called("register") =>
    LET was == l2.last.before.owners[l2.last.node]
    IN /\ was = ZeroAddress
            => /\ ~L2Reverted
               /\ l2.storage.owners[l2.last.node] = l2.last.sender
       /\ was \notin {ZeroAddress, l2.last.sender}
            => /\ l2.last.reverted = "L2Resolver__UnavailableDomain"
               /\ L2StorageKept

(* C23: a call guarded by authorised(node) from an account that is not    *)
(* the owner of the node reverts and changes nothing.                     *)
C23_OnlyOwnerAuthorised ==
  (L2Called("setOwner") \/ L2Called("setText"))
    => (l2.last.before.owners[l2.last.node] # l2.last.sender
          => L2Reverted /\ L2StorageKept)

(* The last call on the DatabaseResolver was to `fn`.                     *)
ResolverCalled(fn) == resolver.last.fn = fn

ResolverReverted == resolver.last.reverted # None

ResolverStorageKept == resolver.storage = resolver.last.before

ByContractOwner == resolver.last.sender = resolver.last.before.contractOwner

Listed == {resolver.last.arg[i] : i \in 1..Len(resolver.last.arg)}

(* C24: the signer set and the gateway URL change only through calls made *)
(* by the contract owner: addSigners, removeSigners and setGatewayUrl     *)
(* from any other account revert and leave both unchanged; adding signers *)
(* keeps every signer there was, and removing signers makes isSigner      *)
(* false for the removed ones and for no other.                           *)
C24_OwnerOnlyAdministration ==
  /\ (resolver.storage.signers # resolver.last.before.signers
        \/ resolver.storage.gatewayUrl # resolver.last.before.gatewayUrl)
       => ByContractOwner /\ ~ResolverReverted
  /\ (ResolverCalled("addSigners") \/ ResolverCalled("removeSigners")
        \/ ResolverCalled("setGatewayUrl"))
       => (~ByContractOwner => ResolverReverted /\ ResolverStorageKept)
  /\ (ResolverCalled("addSigners") /\ ~ResolverReverted)
       => \A a \in SignerAddresses :
            isSigner(resolver.storage, a)
              <=> (isSigner(resolver.last.before, a) \/ a \in Listed)
  /\ (ResolverCalled("removeSigners") /\ ~ResolverReverted)
       => \A a \in SignerAddresses :
            isSigner(resolver.storage, a)
              <=> (isSigner(resolver.last.before, a) /\ a \notin Listed)

(* The owner removed one of two signers, and the other stayed; before     *)
(* that, ownership had passed to another account.                         *)
C24_Witness ==
  /\ ResolverCalled("removeSigners")
  /\ ~ResolverReverted
  /\ resolver.last.sender = "bob"
  /\ resolver.last.before.signers = SignerAddresses
  /\ Cardinality(resolver.storage.signers) = 1

(* C25: resolveWithProof returns a result only when the signer recovered  *)
(* from the response is in the signer set at the time of the call; a      *)
(* response signed by a key that is not in the set (never added, or       *)
(* removed) is rejected.                                                  *)
C25_ProofNeedsSigner ==
  ResolverCalled("resolveWithProof") =>
    LET signer == verify(resolver.last.arg).signer
    IN /\ ResolverStorageKept
       /\ ~ResolverReverted
            => /\ isSigner(resolver.last.before, signer)
               /\ resolver.last.returned = verify(resolver.last.arg).result
       /\ ~isSigner(resolver.last.before, signer)
            => ResolverReverted /\ resolver.last.returned = None

(* A response signed by a signer that was removed is rejected.            *)
C25_Witness ==
  /\ ResolverCalled("resolveWithProof")
  /\ ResolverReverted
  /\ verify(resolver.last.arg).signer \in resolver.removed

(* The withSigner function of request r returned a body, which was sent.  *)
SignerReturned(r) == mw[r].pc = "sent" /\ mw[r].sent[1].status < 400

SetTextTask(t) ==
  /\ t.pc # "idle"
  /\ t.data.sel = "setText"
  /\ t.data.ok

NoStoredRecord(node) == node = "n2"

TransferDone == own.call.pc = "done"

(* C29: the transfer handler returns 'Unauthorized', 401, and calls no    *)
(* repository write when verifyOwnership is false; it returns 'Unable to  *)
(* transfer domain', 400, when the verification or the repository throws; *)
(* and no exception leaves it.                                            *)
C29_TransferErrors ==
  /\ own.call.escaped = Absent
  /\ TransferDone =>
       /\ own.call.result # <<>>
       /\ (own.call.verified /\ ~own.call.isOwner)
            => /\ own.call.result = <<ReturnedError("Unauthorized", 401)>>
               /\ "transfer" \notin own.call.calls
               /\ own.call.threw = Absent
       /\ own.call.threw # Absent
            => own.call.result = <<ReturnedError("Unable to transfer domain", 400)>>

(* repo.transfer threw for a verified owner, and the handler answered     *)
(* 400.                                                                   *)
C29_Witness ==
  /\ TransferDone
  /\ own.call.isOwner
  /\ "transfer" \in own.call.calls
  /\ own.call.threw = Msg("connection lost")
  /\ own.call.result = <<ReturnedError("Unable to transfer domain", 400)>>

(* C30: MongoRepository.verifyOwnership returns true only if the on-chain *)
(* owner of the node is the given address or the owner contract reports   *)
(* the address as a manager; it returns false when a lookup throws; and   *)
(* it writes to the store (the upsert of the owner) only on the path that *)
(* returns true through direct ownership.                                 *)
C30_VerifyOwnership ==
  [][LET c == own'.call
         direct == own.chain[c.node] = c.address
         manager == own.chain[c.node] = "0xmultisig" /\ c.address \in own.managers
         verifying == own.call.pc \in {"getOnChainOwner", "updateOne",
                                       "entityMemberManager", "userRoleLookup"}
     IN /\ (c.verified /\ c.isOwner) => direct \/ manager
        /\ (c.verified /\ c.caught) => ~c.isOwner
        /\ "updateOne" \in c.calls => c.verified /\ c.isOwner /\ direct
        /\ (verifying /\ own'.stored # own.stored)
             => /\ c.pc = "verified" /\ c.isOwner /\ direct
                /\ own'.stored = [own.stored EXCEPT ![c.node] = <<c.address>>]]_vars

(* The owner itself signed: true, and its record was created.             *)
C30_Witness ==
  /\ own.call.pc = "verified"
  /\ own.call.isOwner
  /\ "updateOne" \in own.call.calls
  /\ own.stored[own.call.node] = <<own.call.address>>

(* ---------------------------------------------------------------- reads *)
(* The only record there is under the identity is one whose LEIHash is it *)
(* and whose address is set.                                              *)
OnlyByLEIHash(store, node) ==
  /\ ~findOne(store, "nodeHash", node).exists
  /\ findOne(store, "LEIHash", node).exists
  /\ Truthy(findOne(store, "LEIHash", node).fields["address"])

(* C31: getAddress finds the record by nodeHash and otherwise by LEI      *)
(* hash, as getText does: asked for an identity that only the LEIHash of  *)
(* a record equals, it returns the address of that record.                *)
C31_GetAddressFallsBack ==
  (lookup.fn = "getAddress" /\ OnlyByLEIHash(lookup.store, lookup.node))
    => lookup.returned =
         findOne(lookup.store, "LEIHash", lookup.node).fields["address"]

(* ----------------------------------------------------------- L1Resolver *)
L1WriteEntryPoints ==
  {"register", "multicall", "setAddr", "setAddrCoinType", "setText",
   "setContenthash"}

L1TargetOf(fn) == IF fn = "register" THEN "TARGET_REGISTRAR" ELSE "TARGET_RESOLVER"

(* C32: every write entry point of L1Resolver reverts with                *)
(* StorageHandledByL2(chainId, target), the target being the one the      *)
(* contract holds for that function, whatever the input and the caller,   *)
(* and leaves the targets as they were; the targets change only in a      *)
(* setTarget sent by the owner.                                           *)
C32_WritesDeferredToL2 ==
  /\ l1.last.fn \in L1WriteEntryPoints
       => /\ l1.last.reverted =
               <<"StorageHandledByL2", l1.last.before.chainId,
                 l1.last.before.targets[L1TargetOf(l1.last.fn)]>>
          /\ l1.storage = l1.last.before
  /\ l1.storage.targets # l1.last.before.targets
       => /\ l1.last.fn = "setTarget"
          /\ l1.last.sender = l1.last.before.contractOwner
          /\ l1.last.reverted = <<>>

(* A write entry point reverted on a contract whose targets the owner had *)
(* changed, sent by an account that is not the owner.                     *)
C32_Witness ==
  /\ l1.last.fn = "register"
  /\ l1.last.sender # l1.storage.contractOwner
  /\ l1.storage.targets["TARGET_REGISTRAR"] = "0xl2resolver"
  /\ l1.last.reverted = <<"StorageHandledByL2", 10, "0xl2resolver">>

(* --------------------------------------------------------- registration *)
(* The handler returned its callback data.                                *)
RegisterReturned == reg.pc = "done" /\ reg.result[1].error = NoError

(* The partners of the record that have a wallet address, by ascending    *)
(* index.                                                                 *)
WithWallet(returnObj) ==
  {idx \in SchemaPartners : returnObj[idx].wallet # Undefined}

(* C33: the register handler returns one encoded (address, shares,        *)
(* roleData) entry for every partner of the record that has a wallet      *)
(* address, by ascending partner index, for every index of the schema (0  *)
(* to 5); roleData is the manager role hash then the signer role hash,    *)
(* for the roles the partner holds.                                       *)
C33_EveryPartnerEncoded ==
  RegisterReturned =>
    LET entries == reg.result[1].data[4]
        held == WithWallet(reg.returnObj)
    IN /\ Len(entries) = Cardinality(held)
       /\ \A idx \in held :
            LET at == Cardinality({j \in held : j <= idx})
                p == reg.returnObj[idx]
            IN entries[at] =
                 AbiEncode(<<"address", "uint256", "bytes">>,
                           <<p.wallet, p.shares,
                             (IF p.isManager = "true"
                                THEN <<roleHash("manager")>> ELSE <<>>)
                               \o (IF p.isSigner = "true"
                                      THEN <<roleHash("signer")>> ELSE <<>>)>>)

(* ------------------------------------------------------- the middleware *)
(* The response handleRequest handed to res.json for request r has status *)
(* 200 and the empty data '0x'.                                           *)
EmptyDataHanded(r) ==
  /\ req[r].st = "done"
  /\ req[r].res[1].status = 200
  /\ req[r].res[1].body.data = EmptyBytes

(* C34: a response with status 200 and the empty data '0x' leaves the     *)
(* middleware in the step it enters it, unsigned, as the plain body with  *)
(* a ttl (its own, or the default), and the middleware makes no store     *)
(* access for it: no record identity is queried and the store, with the   *)
(* constitutionHash of every record, stays as the handler left it.        *)
C34_EmptyDataUnsigned ==
  [][\A r \in Reqs :
       (mw[r].pc = "idle" /\ mw'[r].pc # "idle" /\ EmptyDataHanded(r))
         => /\ mw'[r].pc = "sent"
            /\ mw'[r].nodeHash = None
            /\ mw'[r].constitutionHash = Absent
            /\ LET sent == mw'[r].sent[1]
                   body == req[r].res[1].body
               IN /\ sent.status = 200
                  /\ sent.sig = Absent
                  /\ sent.data = EmptyBytes
                  /\ sent.message = body.message
                  /\ IF body.ttl = Undefined THEN sent.ttl \in HookTTLs
                                              ELSE sent.ttl = body.ttl
            /\ db' = db]_vars

(* A saved setAddr went out plain, and the record's stored fingerprint is *)
(* not the fingerprint of its contents.                                   *)
C34_Witness ==
  \E r \in Reqs :
    /\ mw[r].pc = "sent"
    /\ EmptyDataHanded(r)
    /\ req[r].callData.sel = "setAddr"
    /\ mw[r].sent[1].sig = Absent
    /\ db["n1"].fields["address"] = "a1"
    /\ db["n1"].constitutionHash # keccak256(fetchAndPrepareRecord(db["n1"].fields))

SetTextRecomputed(r) ==
  /\ req[r].st = "done"
  /\ req[r].callData.sel = "setText"
  /\ mw[r].pc \in {"persist", "sign", "sent"}
  /\ mw[r].constitutionHash # Absent

(* C36: for a setText call with no concurrent write, the constitutionHash *)
(* MongoRepository.setText computed, stored and returned equals the       *)
(* fingerprint the signing middleware recomputes from the stored record,  *)
(* for every key, whether it was in the record or is new to it.           *)
C36_SameFingerprint ==
  \A r \in Reqs :
    SetTextRecomputed(r) => Handed(r).body.data[3][2] = mw[r].constitutionHash

(* ---------------------------------------------------------- concurrency *)
AllCompleted == \A x \in Writers : race.w[x].pc = "done"

(* C37: whatever the interleaving of concurrent authorised setText        *)
(* requests on one node and of their signing-middleware steps, once all   *)
(* of them have completed every written key holds the value written to it *)
(* last and the stored constitutionHash is the fingerprint of the final   *)
(* contents of the record.                                                *)
C37_ConcurrentSetText ==
  AllCompleted =>
    /\ \A k \in WrittenKeys :
         race.last[k] # Undefined => race.db["n1"].fields[k] = race.last[k]
    /\ race.db["n1"].constitutionHash =
         keccak256(fetchAndPrepareRecord(race.db["n1"].fields))

(* C38: the signing middleware treats a multicall as containing setText   *)
(* if and only if one of its inner calls has the setText selector: it     *)
(* takes the record identity from the batch's last result then, and       *)
(* queries with the identity '0x' otherwise, also when the argument bytes *)
(* of another call contain 10f13a8c.                                      *)
C38_SetTextBySelector ==
  \A r \in Reqs :
    (req[r].st = "done" /\ req[r].callData.sel = "multicall"
       /\ mw[r].nodeHash # None)
      => LET results == Handed(r).body.data[3][1]
         IN mw[r].nodeHash =
              IF HasSetTextCall(req[r].callData)
                THEN slice66(results[Len(results)])
                ELSE "0x"
====
